---------------------------- MODULE Spec2Model ----------------------------
(***************************************************************************)
(* Cold-email outreach engine: campaign sequence generator, send gate,     *)
(* dispatcher, reply processor and suppression list, as one state machine  *)
(* over the shared record store (leads, campaigns, email_records, replies, *)
(* suppressions).                                                          *)
(*                                                                         *)
(* Text is modelled character by character (tuples of one-character        *)
(* strings) so that strip/lower/substring are computed, not assumed.       *)
(* Time is an integer number of minutes since 00:00 UTC of day 0.          *)
(***************************************************************************)
EXTENDS Integers, Sequences, FiniteSets, TLC

(***************************************************************************)
(* Bounds of the model.                                                    *)
(***************************************************************************)
\* rows of email_records (a launch appends 5 per eligible lead)
MaxEmailRows == 10
\* last day the clock may reach
MaxDay == 3
\* Reply rows that process_reply may insert
MaxReplies == 1
\* settings.daily_send_limit (config default 20, overridable by environment)
daily_send_limit == 2

(***************************************************************************)
(* Program constants.                                                      *)
(***************************************************************************)
\* window_end = utcnow() + timedelta(minutes=5)
LookaheadMinutes == 5
\* raw_content=text_body[:5000]
RawContentLimit == 5000

MinutesPerDay == 24 * 60

SecondsPerMinute == 60

\* settings.auto_reply_min_delay, settings.auto_reply_max_delay (seconds)
auto_reply_min_delay == 1800
auto_reply_max_delay == 10800

\* beat_schedule: seconds between two runs of auto_send_approved_replies
SweepPeriodSeconds == 300

\* SEQUENCE_DELAYS: step -> (min_days, max_days)
SEQUENCE_DELAYS == << <<0, 0>>, <<3, 5>>, <<7, 9>>, <<12, 15>>, <<18, 21>> >>

Steps == DOMAIN SEQUENCE_DELAYS

\* class EmailStatus
EmailStatus == {"pending", "sent", "replied", "bounced", "unsubscribed", "failed"}

\* class CampaignStatus
CampaignStatus == {"draft", "active", "paused", "completed"}

\* class ReplyCategory, the closed set classify_reply returns
ReplyCategory == {"interested", "question", "objection", "out_of_office",
                  "unsubscribe", "negative", "unknown"}

\* the absent value (None / NULL) of integer-valued columns
None == -1

(***************************************************************************)
(* Characters and strings.                                                 *)
(***************************************************************************)
UpperChars == << "A","B","C","D","E","F","G","H","I","J","K","L","M",
                 "N","O","P","Q","R","S","T","U","V","W","X","Y","Z" >>
LowerChars == << "a","b","c","d","e","f","g","h","i","j","k","l","m",
                 "n","o","p","q","r","s","t","u","v","w","x","y","z" >>

\* str.lower() on one character
LowerChar(c) ==
    IF \E i \in DOMAIN UpperChars : UpperChars[i] = c
    THEN LowerChars[CHOOSE i \in DOMAIN UpperChars : UpperChars[i] = c]
    ELSE c

\* str.lower()
StrLower(s) == [i \in DOMAIN s |-> LowerChar(s[i])]

RECURSIVE LStrip(_)
LStrip(s) == IF s # <<>> /\ Head(s) = " " THEN LStrip(Tail(s)) ELSE s

RECURSIVE RStrip(_)
RStrip(s) ==
    IF s # <<>> /\ s[Len(s)] = " " THEN RStrip(SubSeq(s, 1, Len(s) - 1)) ELSE s

\* str.strip()
StrStrip(s) == RStrip(LStrip(s))

\* email.strip().lower(), the normal form every suppression lookup uses
Normalize(s) == StrLower(StrStrip(s))

\* body.get("from_email", "").lower().strip() in simulate_reply
LowerStrip(s) == StrStrip(StrLower(s))

\* kw in text  (substring test)
Contains(text, kw) ==
    \E i \in 1..(Len(text) - Len(kw) + 1) : SubSeq(text, i, i + Len(kw) - 1) = kw

\* text[:n]
Truncate(text, n) == IF Len(text) <= n THEN text ELSE SubSeq(text, 1, n)

\* unsubscribe_keywords in process_reply
unsubscribe_keywords ==
    { <<"u","n","s","u","b","s","c","r","i","b","e">>,
      <<"r","e","m","o","v","e"," ","m","e">>,
      <<"s","t","o","p"," ","e","m","a","i","l","i","n","g">>,
      <<"t","a","k","e"," ","m","e"," ","o","f","f">>,
      <<"o","p","t"," ","o","u","t">>,
      <<"d","o","n","'","t"," ","e","m","a","i","l">>,
      <<"p","l","e","a","s","e"," ","r","e","m","o","v","e">> }

\* any(kw in text_body.lower() for kw in unsubscribe_keywords)
HasUnsubscribeKeyword(text) ==
    \E kw \in unsubscribe_keywords : Contains(StrLower(text), kw)

(***************************************************************************)
(* Input domains.                                                          *)
(***************************************************************************)
\* addresses given to create_lead
LeadEmailInputs == { <<"a","@","x">>, <<"b","@","x">> }

\* addresses given to the unsubscribe link: a variant of the first lead's
\* address that differs by case and surrounding blanks, and the empty one
UnsubscribeInputs == { <<" ","A","@","X"," ">>, <<>> }

\* from-addresses of inbound replies: another variant of the first lead's
\* address (a sender unknown to the store while that lead does not exist)
ReplyFromInputs == { <<"A","@","x"," ">> }

\* from-addresses of inbound replies to a store whose leads are fixed: a
\* stored address as it is stored, two that differ from a stored address by
\* case or blanks only, and one that belongs to no lead
SenderInputs ==
    { <<"A","@","X">>, <<"A","@","x"," ">>, <<" ","B","@","X">>, <<"c","@","x">> }

EmailInputs ==
    LeadEmailInputs \cup UnsubscribeInputs \cup ReplyFromInputs \cup SenderInputs

\* inbound reply bodies: one that carries an unsubscribe keyword (in mixed
\* case, inside a longer word) and one that carries none
TextInputs == { <<"P","l","s"," ","U","n","S","u","b","s","c","r","i","b","e","d">>,
                <<"s","o","u","n","d","s"," ","o","k">> }

\* labels the classifier is made to return: one actionable, one not
CategoryInputs == {"interested", "out_of_office"}

BundleIds == {"b1"}

\* ids create_campaign hands out
CampaignIds == {1}

\* the time of day the clock visits: 08:55, when a row scheduled at 09:00 is
\* within the lookahead window and a row scheduled at 11:55 is not yet due
ClockTimeOfDay == 8 * 60 + 55

\* instants the clock visits: 08:55 of the first day and of the last day
ClockTimes == {d * MinutesPerDay + ClockTimeOfDay : d \in {0, MaxDay}}

\* addresses given to add_suppression and db_add_suppression called directly
SuppressionInputs ==
    LeadEmailInputs \cup UnsubscribeInputs \cup ReplyFromInputs
      \cup { <<" ","b","@","X">>, <<"c","@","x">>, <<"C","@","x"," ">> }

\* the string functions, tabulated once over the inputs
NormalizeOf ==
    [e \in SuppressionInputs \cup EmailInputs
          \cup {Normalize(x) : x \in SuppressionInputs \cup EmailInputs} |-> Normalize(e)]
LowerStripOf == [e \in EmailInputs |-> LowerStrip(e)]
UnsubscribeIntent == [t \in TextInputs |-> HasUnsubscribeKeyword(t)]
RawContentOf == [t \in TextInputs |-> Truncate(t, RawContentLimit)]

\* random.randint(9, 11) and random.randint(0, 55)
SendHours == 9..11
SendMinutes == 0..55

\* the draws << delay_days, send_hour, send_minute >> one step can get, with
\* the clock time taken from a set of << hour, minute >> pairs
DrawsOf(step, times) ==
    {<< d, t[1], t[2] >> : d \in SEQUENCE_DELAYS[step][1]..SEQUENCE_DELAYS[step][2],
                          t \in times}

\* what one call of the generator gets per step: the three random draws and
\* the minutes that have passed since the call began when the row's utcnow()
\* is read, << delay_days, send_hour, send_minute, elapsed >>. Every row at the
\* earliest day and minute of its window, or every row at the latest, all
\* within the minute in which the call began
EarliestDraw == [step \in Steps |-> << SEQUENCE_DELAYS[step][1], 9, 0, 0 >>]
LatestDraw == [step \in Steps |-> << SEQUENCE_DELAYS[step][2], 11, 55, 0 >>]
DrawProfiles == {EarliestDraw, LatestDraw}

\* dispatcher invocations that may be in progress at once
Workers == {1}

VARIABLES
    now,              \* datetime.utcnow(), minutes
    leads,            \* table leads: sequence of rows, id = index
    campaigns,        \* table campaigns: sequence of rows, id = index
    emails,           \* table email_records: sequence of rows, id = index
    replies,          \* table replies: sequence of rows, id = index
    suppressions,     \* table suppressions: set of rows
    enqueue_calls,    \* launches between the status update and the enqueue:
                      \* the arguments of their enqueue_campaign_sequence calls
    enqueue_result,   \* return value of the last enqueue_campaign_sequence
    disp,             \* per worker: the process_pending_emails invocation
    smtp_calls,       \* per email record: messages send_email transmitted for it
    gate_out,         \* last result of should_send_email applied on its own
    response,         \* return value of the last call whose result is observed
    auto_reply_enabled, \* settings.auto_reply_enabled
    reply_tasks,      \* queued send_single_reply tasks: [reply, eta]
    reply_run,        \* the send_single_reply task in progress: its reply id, or 0
    reply_run2,       \* the same for a second worker process
    reply_sends,      \* log of the messages send_reply_email transmitted
    rejected          \* history: reply ids reject_reply was called for

vars == << now, leads, campaigns, emails, replies, suppressions, enqueue_calls,
           enqueue_result, disp, smtp_calls, gate_out, response, auto_reply_enabled,
           reply_tasks, reply_run, reply_run2, reply_sends, rejected >>

\* the state of the reply sender
reply_vars == << reply_tasks, reply_run, reply_run2, reply_sends, rejected >>

(***************************************************************************)
(* Helpers over the store.                                                 *)
(***************************************************************************)
Min(a, b) == IF a <= b THEN a ELSE b

DayOf(t) == t \div MinutesPerDay

\* datetime.replace(hour=0, minute=0, second=0, microsecond=0)
DayStart(t) == DayOf(t) * MinutesPerDay

RECURSIVE SetToSortedSeq(_)
SetToSortedSeq(S) ==
    IF S = {} THEN <<>>
    ELSE LET m == CHOOSE x \in S : \A y \in S : x <= y
         IN  <<m>> \o SetToSortedSeq(S \ {m})

SeqRange(s) == {s[i] : i \in DOMAIN s}

RemoveAt(s, i) == SubSeq(s, 1, i - 1) \o SubSeq(s, i + 1, Len(s))

\* addresses on the suppression list
SuppressedAddresses == {s.email_address : s \in suppressions}

IdleDisp == [phase |-> "idle", pending |-> {}, batch |-> {}, cur |-> 0]

NoResult == [campaign_id |-> 0, queued |-> 0, skipped |-> 0, first_row |-> 0]

NoGate == [record |-> 0, ok |-> FALSE, reason |-> "not_run"]

NoResponse == [op |-> "none"]

\* the reply sender at start: nothing queued, nothing in progress, nothing sent
ReplySenderIdle ==
    /\ reply_tasks = {}
    /\ reply_run = 0
    /\ reply_run2 = 0
    /\ reply_sends = <<>>
    /\ rejected = {}

Init ==
    /\ now = ClockTimeOfDay
    /\ leads = <<>>
    /\ campaigns = <<>>
    /\ emails = <<>>
    /\ replies = <<>>
    /\ suppressions = {}
    /\ enqueue_calls = <<>>
    /\ enqueue_result = NoResult
    /\ disp = [w \in Workers |-> IdleDisp]
    /\ smtp_calls = <<>>
    /\ gate_out = NoGate
    /\ response = NoResponse
    /\ auto_reply_enabled = FALSE
    /\ ReplySenderIdle

(***************************************************************************)
(* Suppression guard (services/suppression.py, database/db.py).            *)
(***************************************************************************)
\* is_suppressed comparing the address as given, without strip().lower()
is_suppressed_raw(email, supp) ==
    \E s \in supp : s.email_address = email

\* is_suppressed(email, db) / db_is_suppressed(email)
is_suppressed(email, supp) ==
    \E s \in supp : s.email_address = NormalizeOf[email]

\* add_suppression without the is_suppressed test: every call inserts
add_suppression_Unchecked(email, reason, supp) ==
    supp \cup {[email_address |-> NormalizeOf[email], reason |-> reason]}

\* an add that leaves the new row alone in the table
add_suppression_Replace(email, reason, supp) ==
    {[email_address |-> NormalizeOf[email], reason |-> reason]}

\* add_suppression(email, reason, db): the table afterwards
add_suppression(email, reason, supp) ==
    IF ~is_suppressed(email, supp)
    THEN supp \cup {[email_address |-> NormalizeOf[email], reason |-> reason]}
    ELSE supp

\* add_suppression(email, reason, db) called directly; it has no return
\* statement, so the caller gets None whether or not a row was added
add_suppression_call(email, reason) ==
    /\ suppressions' = add_suppression(email, reason, suppressions)
    /\ response' = [op |-> "add_suppression", email |-> email, ret |-> "None"]
    /\ UNCHANGED << now, leads, campaigns, emails, replies, enqueue_calls,
                    enqueue_result, disp, smtp_calls, gate_out,
                    auto_reply_enabled, reply_vars >>

\* db_add_suppression(email, reason): None when the normalized address is
\* already suppressed, the inserted row otherwise
db_add_suppression(email, reason) ==
    /\ suppressions' = IF is_suppressed(email, suppressions) THEN suppressions
                       ELSE suppressions \cup
                            {[email_address |-> NormalizeOf[email], reason |-> reason]}
    /\ response' = [op |-> "db_add_suppression", email |-> email,
                    ret |-> IF is_suppressed(email, suppressions) THEN "None" ELSE "row"]
    /\ UNCHANGED << now, leads, campaigns, emails, replies, enqueue_calls,
                    enqueue_result, disp, smtp_calls, gate_out,
                    auto_reply_enabled, reply_vars >>

\* GET /unsubscribe?email=...
Unsubscribe(email) ==
    /\ email # <<>>
    /\ suppressions' = add_suppression(email, "unsubscribe_link_click", suppressions)
    /\ UNCHANGED << now, leads, campaigns, emails, replies, enqueue_calls,
                    enqueue_result, disp, smtp_calls, gate_out >>
    /\ UNCHANGED << response, auto_reply_enabled, reply_vars >>

(***************************************************************************)
(* Clock.                                                                  *)
(***************************************************************************)
AdvanceClock ==
    /\ \E t \in ClockTimes : t > now /\ now' = t
    /\ UNCHANGED << leads, campaigns, emails, replies, suppressions, enqueue_calls,
                    enqueue_result, disp, smtp_calls, gate_out >>
    /\ UNCHANGED << response, auto_reply_enabled, reply_vars >>

(***************************************************************************)
(* Leads (routers/replies.py create_lead).                                 *)
(***************************************************************************)
\* POST /leads/ : the address is stored as given; leads.email is UNIQUE
create_lead(email, bundle) ==
    /\ \A i \in DOMAIN leads : leads[i].email # email
    /\ leads' = Append(leads, [email |-> email, bundle_id |-> bundle])
    /\ UNCHANGED << now, campaigns, emails, replies, suppressions, enqueue_calls,
                    enqueue_result, disp, smtp_calls, gate_out >>
    /\ UNCHANGED << response, auto_reply_enabled, reply_vars >>

(***************************************************************************)
(* Campaigns (routers/campaigns.py).                                       *)
(***************************************************************************)
\* db_get_leads_by_bundle_ids(bundle_ids): ids of the leads of these bundles
db_get_leads_by_bundle_ids(bundle_ids) ==
    {i \in DOMAIN leads : leads[i].bundle_id \in bundle_ids}

\* POST /campaigns/ with name, lead_bundle_ids and body_template present
create_campaign(bundle_ids) ==
    /\ Len(campaigns) + 1 \in CampaignIds
    /\ bundle_ids # {}
    /\ campaigns' = Append(campaigns, [status |-> "draft", lead_bundle_ids |-> bundle_ids])
    /\ UNCHANGED << now, leads, emails, replies, suppressions, enqueue_calls,
                    enqueue_result, disp, smtp_calls, gate_out >>
    /\ UNCHANGED << response, auto_reply_enabled, reply_vars >>

\* rows a launch appends per lead, and rows of the launches still in flight
RowsPerLead == Cardinality(Steps)

RowsInFlight ==
    LET RECURSIVE Sum(_)
        Sum(i) == IF i > Len(enqueue_calls) THEN 0
                  ELSE RowsPerLead * Len(enqueue_calls[i].lead_ids) + Sum(i + 1)
    IN  Sum(1)

\* a status test that lets every campaign through
LaunchRejectsStatus_Never(status) == FALSE

\* the status test of launch_campaign: which campaigns may not be launched
LaunchRejectsStatus(status) == status = "active"

\* clean_leads of launch_campaign: leads with an address that is not suppressed
clean_leads(c) ==
    {l \in db_get_leads_by_bundle_ids(campaigns[c].lead_bundle_ids) :
        leads[l].email # <<>> /\ ~is_suppressed(leads[l].email, suppressions)}

NoError == [status |-> 200, detail |-> "none"]

\* the no-eligible-leads test left out: an empty lead_ids list is accepted
NoEligibleLeads_Accepted(c) == FALSE

\* if not lead_ids
NoEligibleLeads(c) == clean_leads(c) = {}

\* the HTTPException launch_campaign raises for campaign id c, in the order of
\* its checks, or NoError
LaunchError(c) ==
    IF c \notin DOMAIN campaigns
    THEN [status |-> 404, detail |-> "Campaign not found"]
    ELSE IF LaunchRejectsStatus(campaigns[c].status)
    THEN [status |-> 400, detail |-> "Campaign already active"]
    ELSE IF campaigns[c].lead_bundle_ids = {}
    THEN [status |-> 400, detail |-> "No lead bundles on this campaign"]
    ELSE IF NoEligibleLeads(c)
    THEN [status |-> 400, detail |-> "No eligible leads found"]
    ELSE NoError

\* POST /campaigns/{id}/launch when one of its checks raises: the error is
\* returned to the caller and nothing else happens
launch_rejected(c) ==
    /\ LaunchError(c) # NoError
    /\ response' = [op |-> "launch", campaign_id |-> c,
                    status |-> LaunchError(c).status,
                    detail |-> LaunchError(c).detail,
                    dispatch_triggered |-> FALSE]
    /\ UNCHANGED << now, leads, campaigns, emails, replies, suppressions,
                    enqueue_calls, enqueue_result, disp, smtp_calls, gate_out,
                    auto_reply_enabled, reply_vars >>

\* POST /campaigns/{id}/launch up to db_update_campaign_status(id, "active");
\* the call of enqueue_campaign_sequence it then makes is EnqueueCampaignSequence
launch_campaign(c) ==
    /\ LaunchError(c) = NoError
    /\ Len(emails) + RowsInFlight + RowsPerLead * Cardinality(clean_leads(c))
           <= MaxEmailRows
    /\ campaigns' = [campaigns EXCEPT ![c].status = "active"]
    /\ enqueue_calls' = Append(enqueue_calls,
           [campaign_id |-> c,
            lead_ids    |-> SetToSortedSeq(clean_leads(c)),
            total_leads |-> Cardinality(
                db_get_leads_by_bundle_ids(campaigns[c].lead_bundle_ids))])
    /\ UNCHANGED << now, leads, emails, replies, suppressions, enqueue_result,
                    disp, smtp_calls, gate_out >>
    /\ UNCHANGED << response, auto_reply_enabled, reply_vars >>

\* PATCH /campaigns/{id}/pause
pause_campaign(c) ==
    /\ c \in DOMAIN campaigns
    /\ campaigns' = [campaigns EXCEPT ![c].status = "paused"]
    /\ UNCHANGED << now, leads, emails, replies, suppressions, enqueue_calls,
                    enqueue_result, disp, smtp_calls, gate_out >>
    /\ UNCHANGED << response, auto_reply_enabled, reply_vars >>

\* PATCH /campaigns/{id}/resume
resume_campaign(c) ==
    /\ c \in DOMAIN campaigns
    /\ campaigns' = [campaigns EXCEPT ![c].status = "active"]
    /\ UNCHANGED << now, leads, emails, replies, suppressions, enqueue_calls,
                    enqueue_result, disp, smtp_calls, gate_out >>
    /\ UNCHANGED << response, auto_reply_enabled, reply_vars >>

(***************************************************************************)
(* Sequence generator (services/sequence_engine.py).                       *)
(***************************************************************************)
\* the three random draws of one (lead, step) and the reading of the clock,
\* under a draw profile: << delay_days, send_hour, send_minute, elapsed >>
Draw(profile, step) == profile[step]

\* replace(hour=..., minute=..., second=0) without the replacement: the time
\* of day of the launch is kept
ScheduledAt_NoReplace(t, delay_days, send_hour, send_minute) ==
    t + delay_days * MinutesPerDay

\* (utcnow() + timedelta(days=delay_days)).replace(hour=..., minute=..., second=0)
ScheduledAt(t, delay_days, send_hour, send_minute) ==
    (DayOf(t) + delay_days) * MinutesPerDay + send_hour * 60 + send_minute

\* EmailRecord(campaign_id, lead_id, sequence_step, status=PENDING, scheduled_at)
NewEmailRecord(campaign_id, lead_id, step, scheduled_at) ==
    [campaign_id   |-> campaign_id,
     lead_id       |-> lead_id,
     sequence_step |-> step,
     status        |-> "pending",
     scheduled_at  |-> scheduled_at,
     sent_at       |-> None,
     message_id    |-> None,
     notes         |-> "" ]

\* the steps the generator creates a row for
SequenceSteps == Steps

\* the inner loop: one row per step of SEQUENCE_DELAYS for one lead
RowsForLead(campaign_id, lead_id, profile) ==
    LET steps == SetToSortedSeq(SequenceSteps)
    IN  [k \in DOMAIN steps |->
            LET d == Draw(profile, steps[k])
            IN  NewEmailRecord(campaign_id, lead_id, steps[k],
                               ScheduledAt(now + d[4], d[1], d[2], d[3]))]

\* the per-lead filter without the suppression check
EnqueueSkips_NoSuppression(lead_id) ==
    \/ lead_id \notin DOMAIN leads
    \/ leads[lead_id].email = <<>>

\* the generator's per-lead filter: the lead is skipped
EnqueueSkips(lead_id) ==
    \/ lead_id \notin DOMAIN leads
    \/ leads[lead_id].email = <<>>
    \/ is_suppressed(leads[lead_id].email, suppressions)

\* the outer loop of enqueue_campaign_sequence over lead_ids[i..]:
\* acc = [rows, queued, skipped]
RECURSIVE EnqueueLoop(_, _, _, _, _)
EnqueueLoop(campaign_id, lead_ids, i, profile, acc) ==
    IF i > Len(lead_ids) THEN acc
    ELSE IF EnqueueSkips(lead_ids[i])
    THEN EnqueueLoop(campaign_id, lead_ids, i + 1, profile,
                     [acc EXCEPT !.skipped = @ + 1])
    ELSE LET new == RowsForLead(campaign_id, lead_ids[i], profile)
         IN  EnqueueLoop(campaign_id, lead_ids, i + 1, profile,
                         [acc EXCEPT !.rows = @ \o new, !.queued = @ + Len(new)])

\* the body launch_campaign returns after the generator returned `out`, with
\* the process_pending_emails.delay() it issues just before
LaunchResult(call, out) ==
    [op                 |-> "launch",
     campaign_id        |-> call.campaign_id,
     status             |-> 200,
     detail             |-> "launched",
     total_leads        |-> call.total_leads,
     suppressed_skipped |-> call.total_leads - Len(call.lead_ids),
     emails_queued      |-> out.queued,
     dispatch_triggered |-> TRUE]

\* enqueue_campaign_sequence(campaign_id, lead_ids), called by launch_campaign,
\* and the rest of launch_campaign after it
EnqueueWithDraws(i, profiles) ==
  LET call == enqueue_calls[i] IN
    /\ i \in DOMAIN enqueue_calls
    /\ \E profile \in profiles :
         LET out == EnqueueLoop(call.campaign_id, call.lead_ids, 1, profile,
                                [rows |-> <<>>, queued |-> 0, skipped |-> 0])
         IN  /\ emails' = emails \o out.rows
             /\ smtp_calls' = smtp_calls \o [k \in DOMAIN out.rows |-> 0]
             /\ enqueue_result' = [campaign_id |-> call.campaign_id,
                                   queued      |-> out.queued,
                                   skipped     |-> out.skipped,
                                   first_row   |-> Len(emails) + 1]
             /\ response' = LaunchResult(call, out)
    /\ enqueue_calls' = RemoveAt(enqueue_calls, i)
    /\ UNCHANGED << now, leads, campaigns, replies, suppressions, disp, gate_out >>
    /\ UNCHANGED << auto_reply_enabled, reply_vars >>

EnqueueCampaignSequence(i) == EnqueueWithDraws(i, DrawProfiles)

\* what the caller of POST /campaigns/{id}/launch gets when an exception
\* leaves launch_campaign
LaunchServerError(call) ==
    [op |-> "launch", campaign_id |-> call.campaign_id, status |-> 500,
     detail |-> "Internal Server Error", dispatch_triggered |-> FALSE]

\* enqueue_campaign_sequence(campaign_id, lead_ids) when a store call in it
\* (a query, or the commit after the loop) raises: the session is closed with
\* nothing committed and the exception leaves launch_campaign, after its
\* db_update_campaign_status(campaign_id, "active")
enqueue_campaign_sequence_raises(i) ==
    /\ i \in DOMAIN enqueue_calls
    /\ response' = LaunchServerError(enqueue_calls[i])
    /\ enqueue_calls' = RemoveAt(enqueue_calls, i)
    /\ UNCHANGED << now, leads, campaigns, emails, replies, suppressions,
                    enqueue_result, disp, smtp_calls, gate_out >>
    /\ UNCHANGED << auto_reply_enabled, reply_vars >>

(***************************************************************************)
(* Send gate (services/sequence_engine.py should_send_email).              *)
(***************************************************************************)
GateOk == [ok |-> TRUE, reason |-> "none"]

GateNo(reason) == [ok |-> FALSE, reason |-> reason]

\* check 2 filtering on the lead only, not on the campaign
already_replied_AnyCampaign(r, em) ==
    \E q \in DOMAIN em :
        /\ em[q].lead_id = em[r].lead_id
        /\ em[q].status = "replied"

\* check 2: some row of the same (lead, campaign) has status REPLIED
already_replied(r, em) ==
    \E q \in DOMAIN em :
        /\ em[q].lead_id = em[r].lead_id
        /\ em[q].campaign_id = em[r].campaign_id
        /\ em[q].status = "replied"

\* check 3 querying every earlier step instead of step - 1
PrevStepRows_AnyEarlier(r, em) ==
    {q \in DOMAIN em :
        /\ em[q].lead_id = em[r].lead_id
        /\ em[q].campaign_id = em[r].campaign_id
        /\ em[q].sequence_step < em[r].sequence_step}

\* check 3: the rows the query for step - 1 of the same (lead, campaign) matches;
\* .first() returns one of them
PrevStepRows(r, em) ==
    {q \in DOMAIN em :
        /\ em[q].lead_id = em[r].lead_id
        /\ em[q].campaign_id = em[r].campaign_id
        /\ em[q].sequence_step = em[r].sequence_step - 1}

\* check 3 treating a FAILED previous step like a bounced one
PrevBounced_OrFailed(q, em) == em[q].status \in {"bounced", "failed"}

\* check 3 for the row .first() returned
PrevBounced(q, em) == em[q].status = "bounced"

\* the gate with check 2 before check 1
should_send_email_RepliedFirst(r, em, ld, supp) ==
    IF already_replied(r, em)
    THEN {GateNo("lead_already_replied")}
    ELSE IF is_suppressed(ld[em[r].lead_id].email, supp)
    THEN {GateNo("suppressed")}
    ELSE IF em[r].sequence_step > 1 /\ PrevStepRows(r, em) # {}
    THEN {IF PrevBounced(q, em) THEN GateNo("previous_step_bounced") ELSE GateOk :
             q \in PrevStepRows(r, em)}
    ELSE {GateOk}

\* should_send_email(record, db): the results it can return (one, unless the
\* step - 1 query matches several rows)
should_send_email(r, em, ld, supp) ==
    IF is_suppressed(ld[em[r].lead_id].email, supp)
    THEN {GateNo("suppressed")}
    ELSE IF already_replied(r, em)
    THEN {GateNo("lead_already_replied")}
    ELSE IF em[r].sequence_step > 1 /\ PrevStepRows(r, em) # {}
    THEN {IF PrevBounced(q, em) THEN GateNo("previous_step_bounced") ELSE GateOk :
             q \in PrevStepRows(r, em)}
    ELSE {GateOk}

(***************************************************************************)
(* Dispatcher (workers/send_tasks.py process_pending_emails).              *)
(***************************************************************************)
\* the daily count over SENT rows only
CountedStatuses_SentOnly == {"sent"}

\* statuses the daily count includes
CountedStatuses == {"sent", "replied"}

\* a count that is not restricted to today
TodaySent_AllTime(em, t) ==
    Cardinality({r \in DOMAIN em :
        /\ em[r].sent_at # None
        /\ em[r].status \in CountedStatuses})

\* today_sent: rows with sent_at >= today_start and status in (SENT, REPLIED)
TodaySent(em, t) ==
    Cardinality({r \in DOMAIN em :
        /\ em[r].sent_at # None
        /\ em[r].sent_at >= DayStart(t)
        /\ em[r].status \in CountedStatuses})

\* a quota that is never used up
Remaining_Unlimited(em, t) == daily_send_limit

\* a quota that is one too large
Remaining_OneMore(em, t) == daily_send_limit + 1 - TodaySent(em, t)

\* remaining = settings.daily_send_limit - today_sent
Remaining(em, t) == daily_send_limit - TodaySent(em, t)

\* a pending query without the scheduled_at filter
DuePending_AnyTime(em, t) == {r \in DOMAIN em : em[r].status = "pending"}

\* a pending query that also matches FAILED rows
DuePending_WithFailed(em, t) ==
    {r \in DOMAIN em :
        /\ em[r].status \in {"pending", "failed"}
        /\ em[r].scheduled_at <= t + LookaheadMinutes}

\* rows the pending query matches: PENDING and scheduled_at <= window_end
DuePending(em, t) ==
    {r \in DOMAIN em :
        /\ em[r].status = "pending"
        /\ em[r].scheduled_at <= t + LookaheadMinutes}

\* the row after the dispatcher gave up on it: status FAILED with a note
MarkFailed(rec, note) == [rec EXCEPT !.status = "failed", !.notes = note]

\* the row after a successful send
MarkSent(rec, t, message_id) ==
    [rec EXCEPT !.status = "sent", !.sent_at = t, !.message_id = message_id]

\* a loop that returns after its first record
AfterRecord_Return(d, r) == IdleDisp

\* the invocation after it finished record r: next record, or return
AfterRecord(d, r) ==
    LET rest == d.batch \ {r}
    IN  IF rest = {} THEN IdleDisp
        ELSE [phase |-> "loop", pending |-> d.pending, batch |-> rest, cur |-> 0]

\* return f"Daily limit of {settings.daily_send_limit} reached. Done for today."
DailyLimitReached == [op |-> "process_pending_emails", result |-> "daily_limit_reached"]

\* start of an invocation: the daily count, then the pending query with
\* .limit(remaining) (no ORDER BY: any `remaining` of the due rows)
DispatchStart(w) ==
    /\ disp[w].phase = "idle"
    /\ IF Remaining(emails, now) <= 0
       THEN /\ response' = DailyLimitReached
            /\ UNCHANGED disp
       ELSE /\ \E batch \in SUBSET DuePending(emails, now) :
                 /\ Cardinality(batch) =
                       Min(Remaining(emails, now), Cardinality(DuePending(emails, now)))
                 /\ disp' = [disp EXCEPT
                       ![w] = IF batch = {} THEN IdleDisp
                              ELSE [phase |-> "loop", pending |-> batch,
                                    batch |-> batch, cur |-> 0]]
            /\ UNCHANGED response
    /\ UNCHANGED << now, leads, campaigns, emails, replies, suppressions,
                    enqueue_calls, enqueue_result, smtp_calls, gate_out >>
    /\ UNCHANGED << auto_reply_enabled, reply_vars >>

\* one iteration of the loop up to the send gate: the lead check and
\* should_send_email; a rejected record is committed as FAILED
DispatchGate(w, r) ==
    /\ disp[w].phase = "loop"
    /\ r \in disp[w].batch
    /\ IF emails[r].lead_id \notin DOMAIN leads \/ leads[emails[r].lead_id].email = <<>>
       THEN /\ emails' = [emails EXCEPT ![r] = MarkFailed(@, "no_lead_email")]
            /\ disp' = [disp EXCEPT ![w] = AfterRecord(@, r)]
       ELSE \E res \in should_send_email(r, emails, leads, suppressions) :
              IF ~res.ok
              THEN /\ emails' = [emails EXCEPT ![r] = MarkFailed(@, res.reason)]
                   /\ disp' = [disp EXCEPT ![w] = AfterRecord(@, r)]
              ELSE /\ emails' = emails
                   /\ disp' = [disp EXCEPT ![w].phase = "send", ![w].cur = r]
    /\ UNCHANGED << now, leads, campaigns, replies, suppressions, enqueue_calls,
                    enqueue_result, smtp_calls, gate_out >>
    /\ UNCHANGED << response, auto_reply_enabled, reply_vars >>

\* outcomes of content generation and transport for one record: both
\* succeed, or one of them raises (the except branch treats them alike)
SendOutcomes == {"sent", "error"}

\* the rest of the iteration: generate_personalized_email, send_email, and
\* the commit of the result (SENT, or FAILED from the except branch)
DispatchSend(w, outcome) ==
    /\ disp[w].phase = "send"
    /\ LET r == disp[w].cur
       IN  /\ emails' = [emails EXCEPT ![r] =
                  IF outcome = "sent" THEN MarkSent(@, now, r)
                  ELSE MarkFailed(@, outcome)]
           /\ smtp_calls' = [smtp_calls EXCEPT ![r] =
                  IF outcome = "sent" THEN @ + 1 ELSE @]
           /\ disp' = [disp EXCEPT ![w] = AfterRecord(@, r)]
    /\ UNCHANGED << now, leads, campaigns, replies, suppressions, enqueue_calls,
                    enqueue_result, gate_out >>
    /\ UNCHANGED << response, auto_reply_enabled, reply_vars >>

(***************************************************************************)
(* Reply processor (routers/replies.py).                                   *)
(***************************************************************************)
\* random.randint(auto_reply_min_delay, auto_reply_max_delay), seconds, as
\* whole minutes: the shortest and the longest countdown
AutoReplyDelays ==
    {auto_reply_min_delay \div SecondsPerMinute, auto_reply_max_delay \div SecondsPerMinute}

\* the actionable set reduced to one label
Actionable_InterestedOnly == {"interested"}

\* category in ["interested", "question", "objection"]
Actionable == {"interested", "question", "objection"}

\* a lookup that returns some lead whatever the address
LeadsByEmail_Any(from_email) == DOMAIN leads

\* db.query(Lead).filter(Lead.email == from_email): the matching lead ids
LeadsByEmail(from_email) == {l \in DOMAIN leads : leads[l].email = from_email}

\* rows whose message_id equals in_reply_to
ByMessageId(in_reply_to) ==
    IF in_reply_to = None THEN {}
    ELSE {r \in DOMAIN emails : emails[r].message_id = in_reply_to}

\* the fallback query without the status filter
LatestSent_AnyStatus(lead_id) ==
    LET rows == {r \in DOMAIN emails : emails[r].lead_id = lead_id}
    IN  {r \in rows : \A q \in rows : emails[q].sent_at <= emails[r].sent_at}

\* the fallback query: SENT rows of the lead, newest sent_at first
LatestSent(lead_id) ==
    LET sent == {r \in DOMAIN emails :
                    emails[r].lead_id = lead_id /\ emails[r].status = "sent"}
    IN  {r \in sent : \A q \in sent : emails[q].sent_at <= emails[r].sent_at}

\* the originating rows process_reply can resolve (0 when it finds none)
OriginatingRecords(lead_id, in_reply_to) ==
    IF ByMessageId(in_reply_to) # {} THEN ByMessageId(in_reply_to)
    ELSE IF LatestSent(lead_id) # {} THEN LatestSent(lead_id)
    ELSE {0}

\* Reply(email_id, lead_id, raw_content, category), then the draft and approval
NewReply(email_id, lead_id, text, category) ==
    [email_id     |-> email_id,
     lead_id      |-> lead_id,
     raw_content  |-> RawContentOf[text],
     category     |-> category,
     received_at  |-> now,
     has_draft    |-> category \in Actionable,
     approved     |-> category \in Actionable /\ auto_reply_enabled,
     sent         |-> FALSE,
     responded_at |-> None]

\* the unsubscribe branch without its return: the reply is persisted too
ReplyUnsubscribe_KeepGoing(from_email) ==
    /\ suppressions' = add_suppression(from_email, "unsubscribe_reply", suppressions)
    /\ replies' = Append(replies,
           NewReply(0, CHOOSE l \in LeadsByEmail(from_email) : TRUE,
                    CHOOSE t \in TextInputs : UnsubscribeIntent[t], "unsubscribe"))
    /\ UNCHANGED << emails, reply_tasks, response >>

\* the unsubscribe branch of process_reply
ReplyUnsubscribe(from_email) ==
    /\ suppressions' = add_suppression(from_email, "unsubscribe_reply", suppressions)
    /\ UNCHANGED << emails, replies, reply_tasks, response >>

\* what the background task leaves behind when process_reply raises: nothing
\* was committed, the session is closed by the finally clause
ProcessReplyRaised == [op |-> "process_reply", result |-> "raised"]

\* what process_reply leaves behind for a sender it finds no lead for: a log
\* line, nothing in the store
ProcessReplyNoLead(from_email) ==
    [op |-> "process_reply", result |-> "no_lead", from |-> from_email]

\* the rest of process_reply: thread, classify, persist, mark replied, draft
ReplyPersist(lead_id, text, in_reply_to, categories) ==
    /\ Len(replies) < MaxReplies
    /\ \E e \in OriginatingRecords(lead_id, in_reply_to),
          category \in categories, draft_ok \in BOOLEAN :
         IF category \in Actionable /\ ~draft_ok
         THEN /\ response' = ProcessReplyRaised
              /\ UNCHANGED << emails, replies, reply_tasks >>
         ELSE /\ replies' = Append(replies, NewReply(e, lead_id, text, category))
              /\ UNCHANGED response
              /\ emails' = IF e = 0 THEN emails
                           ELSE [emails EXCEPT ![e].status = "replied"]
              /\ IF category \in Actionable /\ auto_reply_enabled
                 THEN \E delay \in AutoReplyDelays :
                        reply_tasks' = reply_tasks \cup
                            {[reply |-> Len(replies) + 1, eta |-> now + delay]}
                 ELSE UNCHANGED reply_tasks
    /\ UNCHANGED suppressions

\* process_reply(from_email, text_body, in_reply_to), with the labels
\* classify_reply may return
process_reply(from_email, text, in_reply_to, categories) ==
    IF LeadsByEmail(from_email) = {}
    THEN /\ response' = ProcessReplyNoLead(from_email)
         /\ UNCHANGED << emails, replies, suppressions, reply_tasks >>
    ELSE IF UnsubscribeIntent[text]
    THEN ReplyUnsubscribe(from_email)
    ELSE \E l \in LeadsByEmail(from_email) :
            ReplyPersist(l, text, in_reply_to, categories)

\* message ids a caller can quote: none, or one the transport has issued
InReplyToInputs == {None} \cup
    {emails[r].message_id : r \in {q \in DOMAIN emails : emails[q].message_id # None}}

\* POST /simulate-reply, with the background task it schedules, for a
\* classifier that returns one of the given labels
SimulateReplyWith(from_raw, text, in_reply_to, categories) ==
    /\ LowerStripOf[from_raw] # <<>>
    /\ text # <<>>
    /\ UNCHANGED << now, leads, campaigns, enqueue_calls, enqueue_result,
                    disp, smtp_calls, gate_out >>
    /\ process_reply(LowerStripOf[from_raw], text, in_reply_to, categories)
    /\ UNCHANGED << auto_reply_enabled, reply_run, reply_run2, reply_sends, rejected >>

\* POST /simulate-reply
simulate_reply(from_raw, text, in_reply_to) ==
    SimulateReplyWith(from_raw, text, in_reply_to, CategoryInputs)

(***************************************************************************)
(* Approval workflow and reply sender (routers/replies.py,                 *)
(* workers/reply_tasks.py).                                                *)
(***************************************************************************)
\* send_single_reply.delay(reply_id): the queue afterwards
QueueNow(tasks, reply_id) == tasks \cup {[reply |-> reply_id, eta |-> now]}

\* GET /replies/queue: approved == False and sent == False
get_approval_queue ==
    {i \in DOMAIN replies : ~replies[i].approved /\ ~replies[i].sent}

\* POST /replies/{reply_id}/approve, with or without an edited_response
approve_reply(reply_id, edited) ==
    /\ reply_id \in DOMAIN replies
    /\ replies' = [replies EXCEPT
           ![reply_id].has_draft = IF edited THEN TRUE ELSE @,
           ![reply_id].approved = TRUE]
    /\ reply_tasks' = QueueNow(reply_tasks, reply_id)
    /\ UNCHANGED << now, leads, campaigns, emails, suppressions, enqueue_calls,
                    enqueue_result, disp, smtp_calls, gate_out, response,
                    auto_reply_enabled, reply_run, reply_run2, reply_sends, rejected >>

\* POST /replies/{reply_id}/reject
reject_reply(reply_id) ==
    /\ reply_id \in DOMAIN replies
    /\ replies' = [replies EXCEPT ![reply_id].sent = TRUE]
    /\ rejected' = rejected \cup {reply_id}
    /\ UNCHANGED << now, leads, campaigns, emails, suppressions, enqueue_calls,
                    enqueue_result, disp, smtp_calls, gate_out, response,
                    auto_reply_enabled, reply_tasks, reply_run, reply_run2, reply_sends >>

\* a sweep that finds nothing
SweepSelects_None == {}

\* the replies the sweep selects: approved == True and sent == False
SweepSelects == {i \in DOMAIN replies : replies[i].approved /\ ~replies[i].sent}

\* auto_send_approved_replies, the periodic sweep
auto_send_approved_replies ==
    /\ reply_tasks' = reply_tasks \cup {[reply |-> i, eta |-> now] : i \in SweepSelects}
    /\ UNCHANGED << now, leads, campaigns, emails, replies, suppressions,
                    enqueue_calls, enqueue_result, disp, smtp_calls, gate_out,
                    response, auto_reply_enabled, reply_run, reply_run2, reply_sends,
                    rejected >>

\* what send_single_reply returns
TaskReturn(reply_id, result) ==
    [op |-> "send_single_reply", reply |-> reply_id, result |-> result]

\* the early returns without the test of reply.sent
SendReplyCheck_NoSentTest(reply_id) ==
    IF reply_id \notin DOMAIN replies THEN "not_found"
    ELSE IF ~replies[reply_id].has_draft THEN "no_draft"
    ELSE "go"

\* the early returns of send_single_reply for the Reply it loaded, or "go"
SendReplyCheck(reply_id) ==
    IF reply_id \notin DOMAIN replies THEN "not_found"
    ELSE IF replies[reply_id].sent THEN "already_sent"
    ELSE IF ~replies[reply_id].has_draft THEN "no_draft"
    ELSE "go"

\* send_single_reply(reply_id) from the moment its countdown has elapsed up to
\* the checks on the Reply it loads
SendReplyStart(task) ==
    /\ task \in reply_tasks
    /\ task.eta <= now
    /\ reply_run = 0
    /\ reply_tasks' = reply_tasks \ {task}
    /\ IF SendReplyCheck(task.reply) = "go"
       THEN /\ reply_run' = task.reply
            /\ UNCHANGED response
       ELSE /\ response' = TaskReturn(task.reply, SendReplyCheck(task.reply))
            /\ UNCHANGED reply_run
    /\ UNCHANGED << now, leads, campaigns, emails, replies, suppressions,
                    enqueue_calls, enqueue_result, disp, smtp_calls, gate_out,
                    auto_reply_enabled, reply_run2, reply_sends, rejected >>

\* outcomes of send_reply_email: it returns, or it raises
ReplySendOutcomes == {"sent", "failed"}

\* the rest of send_single_reply: send_reply_email, then the commit of
\* sent and responded_at, or the except branch
SendReplyFinish(outcome) ==
    /\ reply_run # 0
    /\ IF outcome = "sent"
       THEN /\ reply_sends' = Append(reply_sends, [reply |-> reply_run, at |-> now])
            /\ replies' = [replies EXCEPT ![reply_run].sent = TRUE,
                                          ![reply_run].responded_at = now]
       ELSE UNCHANGED << reply_sends, replies >>
    /\ response' = TaskReturn(reply_run, outcome)
    /\ reply_run' = 0
    /\ UNCHANGED << now, leads, campaigns, emails, suppressions, enqueue_calls,
                    enqueue_result, disp, smtp_calls, gate_out,
                    auto_reply_enabled, reply_tasks, reply_run2, rejected >>

\* send_single_reply(reply_id) picked up by a second worker process while the
\* first may be in the middle of a task: the same function on its own session
SendReplyStart2(task) ==
    /\ task \in reply_tasks
    /\ task.eta <= now
    /\ reply_run2 = 0
    /\ reply_tasks' = reply_tasks \ {task}
    /\ IF SendReplyCheck(task.reply) = "go"
       THEN /\ reply_run2' = task.reply
            /\ UNCHANGED response
       ELSE /\ response' = TaskReturn(task.reply, SendReplyCheck(task.reply))
            /\ UNCHANGED reply_run2
    /\ UNCHANGED << now, leads, campaigns, emails, replies, suppressions,
                    enqueue_calls, enqueue_result, disp, smtp_calls, gate_out,
                    auto_reply_enabled, reply_run, reply_sends, rejected >>

\* the rest of send_single_reply on the second worker process
SendReplyFinish2(outcome) ==
    /\ reply_run2 # 0
    /\ IF outcome = "sent"
       THEN /\ reply_sends' = Append(reply_sends, [reply |-> reply_run2, at |-> now])
            /\ replies' = [replies EXCEPT ![reply_run2].sent = TRUE,
                                          ![reply_run2].responded_at = now]
       ELSE UNCHANGED << reply_sends, replies >>
    /\ response' = TaskReturn(reply_run2, outcome)
    /\ reply_run2' = 0
    /\ UNCHANGED << now, leads, campaigns, emails, suppressions, enqueue_calls,
                    enqueue_result, disp, smtp_calls, gate_out,
                    auto_reply_enabled, reply_tasks, reply_run, rejected >>

(***************************************************************************)
(* The system.                                                             *)
(***************************************************************************)
Next ==
    \/ AdvanceClock
    \/ \E e \in LeadEmailInputs, b \in BundleIds : create_lead(e, b)
    \/ \E bs \in SUBSET BundleIds : create_campaign(bs)
    \/ \E c \in DOMAIN campaigns : launch_campaign(c)
    \/ \E c \in DOMAIN campaigns : pause_campaign(c)
    \/ \E c \in DOMAIN campaigns : resume_campaign(c)
    \/ \E i \in DOMAIN enqueue_calls : EnqueueCampaignSequence(i)
    \/ \E e \in UnsubscribeInputs : Unsubscribe(e)
    \/ \E w \in Workers : DispatchStart(w)
    \/ \E w \in Workers : \E r \in disp[w].batch : DispatchGate(w, r)
    \/ \E w \in Workers, o \in SendOutcomes : DispatchSend(w, o)
    \/ \E e \in ReplyFromInputs, t \in TextInputs, m \in InReplyToInputs :
          simulate_reply(e, t, m)

Spec == Init /\ [][Next]_vars

(***************************************************************************)
(* The send gate on its own: should_send_email applied to the rows of a    *)
(* store drawn from every combination of statuses.                         *)
(***************************************************************************)
\* (campaign, lead, step) of the rows of the drawn store
GateKeys == << <<1, 1, 1>>, <<1, 1, 2>>, <<1, 1, 3>>, <<2, 1, 2>> >>

\* the address stored for the lead: normalized, or as typed
GateLeadEmails == { <<"a","@","x">>, <<" ","A","@","X"," ">> }

GateRow(k, status) ==
    [NewEmailRecord(GateKeys[k][1], GateKeys[k][2], GateKeys[k][3], 0)
        EXCEPT !.status = status,
               !.sent_at = IF status \in {"pending", "failed"} THEN None ELSE 0,
               !.message_id = IF status \in {"pending", "failed"} THEN None ELSE k]

GateInit ==
    /\ now = ClockTimeOfDay
    /\ \E e \in GateLeadEmails : leads = << [email |-> e, bundle_id |-> "b1"] >>
    /\ campaigns = [c \in 1..2 |-> [status |-> "active", lead_bundle_ids |-> {"b1"}]]
    /\ \E st \in [DOMAIN GateKeys -> EmailStatus] :
          emails = [k \in DOMAIN GateKeys |-> GateRow(k, st[k])]
    /\ replies = <<>>
    /\ \E supp \in SUBSET {[email_address |-> <<"a","@","x">>,
                            reason |-> "unsubscribe_link_click"]} :
          suppressions = supp
    /\ enqueue_calls = <<>>
    /\ enqueue_result = NoResult
    /\ disp = [w \in Workers |-> IdleDisp]
    /\ smtp_calls = [k \in DOMAIN GateKeys |-> 0]
    /\ gate_out = NoGate
    /\ response = NoResponse
    /\ auto_reply_enabled = FALSE
    /\ ReplySenderIdle

\* ok, reason = should_send_email(record, db)
ApplyGate(r) ==
    /\ \E res \in should_send_email(r, emails, leads, suppressions) :
          gate_out' = [record |-> r, ok |-> res.ok, reason |-> res.reason]
    /\ UNCHANGED << now, leads, campaigns, emails, replies, suppressions,
                    enqueue_calls, enqueue_result, disp, smtp_calls >>
    /\ UNCHANGED << response, auto_reply_enabled, reply_vars >>

GateNext == \E r \in DOMAIN emails : ApplyGate(r)

GateSpec == GateInit /\ [][GateNext]_vars

(***************************************************************************)
(* The dispatcher over the drawn store of the gate: every combination of   *)
(* statuses, a lead with or without address, suppressed or not.            *)
(***************************************************************************)
GateOrderInit ==
    /\ now = ClockTimeOfDay
    /\ \E e \in GateLeadEmails \cup {<<>>} :
          leads = << [email |-> e, bundle_id |-> "b1"] >>
    /\ campaigns = [c \in 1..2 |-> [status |-> "active", lead_bundle_ids |-> {"b1"}]]
    /\ \E st \in [DOMAIN GateKeys -> EmailStatus] :
          emails = [k \in DOMAIN GateKeys |-> GateRow(k, st[k])]
    /\ replies = <<>>
    /\ \E supp \in SUBSET {[email_address |-> <<"a","@","x">>,
                            reason |-> "unsubscribe_link_click"]} :
          suppressions = supp
    /\ enqueue_calls = <<>>
    /\ enqueue_result = NoResult
    /\ disp = [w \in Workers |-> IdleDisp]
    /\ smtp_calls = [k \in DOMAIN GateKeys |->
                        IF emails[k].status \in {"pending", "failed"} THEN 0 ELSE 1]
    /\ gate_out = NoGate
    /\ response = NoResponse
    /\ auto_reply_enabled = FALSE
    /\ ReplySenderIdle

GateOrderNext ==
    \/ \E w \in Workers : DispatchStart(w)
    \/ \E w \in Workers : \E r \in disp[w].batch : DispatchGate(w, r)
    \/ \E w \in Workers, o \in SendOutcomes : DispatchSend(w, o)

GateOrderSpec == GateOrderInit /\ [][GateOrderNext]_vars

(***************************************************************************)
(* The sequence generator on its own: enqueue_campaign_sequence called     *)
(* with every list of distinct lead ids over a drawn store.                *)
(***************************************************************************)
\* the leads of the drawn store: an address stored as typed, no address, and
\* a normalized address
EnqueueLeads ==
    << [email |-> <<" ","A","@","X"," ">>, bundle_id |-> "b1"],
       [email |-> <<>>,                    bundle_id |-> "b1"],
       [email |-> <<"b","@","x">>,         bundle_id |-> "b1"] >>

\* ids a caller may pass: the three leads and one id of no lead
EnqueueLeadIds == 1..(Len(EnqueueLeads) + 1)

EnqueueInit ==
    /\ now \in ClockTimes
    /\ leads = EnqueueLeads
    /\ campaigns = << [status |-> "active", lead_bundle_ids |-> {"b1"}] >>
    /\ \E old \in {<<>>, [k \in Steps |-> NewEmailRecord(1, 3, k, 0)]} :
          /\ emails = old
          /\ smtp_calls = [k \in DOMAIN old |-> 0]
    /\ replies = <<>>
    /\ \E addrs \in SUBSET {<<"a","@","x">>, <<"b","@","x">>} :
          suppressions = {[email_address |-> a, reason |-> "unsubscribe_link_click"] :
                             a \in addrs}
    /\ \E ids \in SUBSET EnqueueLeadIds :
          enqueue_calls = << [campaign_id |-> 1, lead_ids |-> SetToSortedSeq(ids),
                              total_leads |-> Cardinality(ids)] >>
    /\ enqueue_result = NoResult
    /\ disp = [w \in Workers |-> IdleDisp]
    /\ gate_out = NoGate
    /\ response = NoResponse
    /\ auto_reply_enabled = FALSE
    /\ ReplySenderIdle

EnqueueNext == \E i \in DOMAIN enqueue_calls : EnqueueCampaignSequence(i)

EnqueueSpec == EnqueueInit /\ [][EnqueueNext]_vars

(***************************************************************************)
(* The suppression list on its own: any sequence of insertions.            *)
(***************************************************************************)
SuppressionReasons == {"unsubscribe_link_click", "unsubscribe_reply"}

SuppNext ==
    \/ \E e \in SuppressionInputs, reason \in SuppressionReasons :
          add_suppression_call(e, reason)
    \/ \E e \in SuppressionInputs, reason \in SuppressionReasons :
          db_add_suppression(e, reason)
    \/ \E e \in UnsubscribeInputs : Unsubscribe(e)

SuppSpec == Init /\ [][SuppNext]_vars

(***************************************************************************)
(* The launch endpoint on its own: every launch request over a drawn       *)
(* store.                                                                  *)
(***************************************************************************)
\* the leads of the drawn store: bundle b1 holds a lead whose address is
\* stored as typed and a lead without address, bundle b2 holds one lead
LaunchLeads ==
    << [email |-> <<" ","A","@","X"," ">>, bundle_id |-> "b1"],
       [email |-> <<>>,                    bundle_id |-> "b1"],
       [email |-> <<"b","@","x">>,         bundle_id |-> "b2"] >>

LaunchBundleIds == {"b1", "b2"}

\* campaign ids a caller may name: the campaign of the store and an unknown id
LaunchCampaignIds == 1..2

LaunchInit ==
    /\ now = ClockTimeOfDay
    /\ leads = LaunchLeads
    /\ \E status \in CampaignStatus, bs \in SUBSET LaunchBundleIds :
          campaigns = << [status |-> status, lead_bundle_ids |-> bs] >>
    /\ emails = <<>>
    /\ smtp_calls = <<>>
    /\ replies = <<>>
    /\ \E addrs \in SUBSET {<<"a","@","x">>, <<"b","@","x">>} :
          suppressions = {[email_address |-> a, reason |-> "unsubscribe_link_click"] :
                             a \in addrs}
    /\ enqueue_calls = <<>>
    /\ enqueue_result = NoResult
    /\ disp = [w \in Workers |-> IdleDisp]
    /\ gate_out = NoGate
    /\ response = NoResponse
    /\ auto_reply_enabled = FALSE
    /\ ReplySenderIdle

LaunchNext ==
    \/ \E c \in LaunchCampaignIds : launch_rejected(c)
    \/ \E c \in LaunchCampaignIds : launch_campaign(c)
    \/ \E i \in DOMAIN enqueue_calls : EnqueueCampaignSequence(i)
    \/ \E c \in DOMAIN campaigns : pause_campaign(c)

LaunchSpec == LaunchInit /\ [][LaunchNext]_vars

\* the launch endpoint over a store whose calls may fail
LaunchFailNext ==
    \/ \E c \in LaunchCampaignIds : launch_rejected(c)
    \/ \E c \in LaunchCampaignIds : launch_campaign(c)
    \/ \E i \in DOMAIN enqueue_calls : EnqueueCampaignSequence(i)
    \/ \E i \in DOMAIN enqueue_calls : enqueue_campaign_sequence_raises(i)
    \/ \E c \in DOMAIN campaigns : pause_campaign(c)

LaunchFailSpec == LaunchInit /\ [][LaunchFailNext]_vars

(***************************************************************************)
(* The schedule on its own: one call of the generator for one lead, at     *)
(* several times of day, with the draws of every step chosen               *)
(* independently.                                                          *)
(***************************************************************************)
\* launch times: midnight, 08:55 and 23:59 of day 0
ScheduleClockTimes == {0, ClockTimeOfDay, MinutesPerDay - 1}

\* the earliest and the latest clock time the draws can give
ScheduleTimes == {<< 9, 0 >>, << 11, 55 >>}

\* minutes the generator may take: each row reads the clock in the minute in
\* which the call began or in the next one
ClockTick == 1

\* every combination of draws for the five steps, with the clock passing to
\* the next minute before row j (j = 6: not at all)
ScheduleDraws ==
    {[k \in Steps |-> Append(p[k], IF k >= j THEN ClockTick ELSE 0)] :
        p \in {<< a, b, c, d, e >> :
                  a \in DrawsOf(1, ScheduleTimes),
                  b \in DrawsOf(2, ScheduleTimes),
                  c \in DrawsOf(3, ScheduleTimes),
                  d \in DrawsOf(4, ScheduleTimes),
                  e \in DrawsOf(5, ScheduleTimes)},
        j \in 1..6}

ScheduleInit ==
    /\ now \in ScheduleClockTimes
    /\ leads = << [email |-> <<"a","@","x">>, bundle_id |-> "b1"] >>
    /\ campaigns = << [status |-> "active", lead_bundle_ids |-> {"b1"}] >>
    /\ emails = <<>>
    /\ smtp_calls = <<>>
    /\ replies = <<>>
    /\ suppressions = {}
    /\ enqueue_calls = << [campaign_id |-> 1, lead_ids |-> <<1>>, total_leads |-> 1] >>
    /\ enqueue_result = NoResult
    /\ disp = [w \in Workers |-> IdleDisp]
    /\ gate_out = NoGate
    /\ response = NoResponse
    /\ auto_reply_enabled = FALSE
    /\ ReplySenderIdle

ScheduleNext == \E i \in DOMAIN enqueue_calls : EnqueueWithDraws(i, ScheduleDraws)

ScheduleSpec == ScheduleInit /\ [][ScheduleNext]_vars

(***************************************************************************)
(* The approval workflow on its own: replies arrive for one lead that was  *)
(* sent step 1, in either auto-reply mode, and are approved, rejected,     *)
(* swept and sent.                                                         *)
(***************************************************************************)
ReplyInit ==
    /\ now = ClockTimeOfDay
    /\ leads = << [email |-> <<"a","@","x">>, bundle_id |-> "b1"] >>
    /\ campaigns = << [status |-> "active", lead_bundle_ids |-> {"b1"}] >>
    /\ emails = << MarkSent(NewEmailRecord(1, 1, 1, now), now, 1) >>
    /\ smtp_calls = << 1 >>
    /\ replies = <<>>
    /\ suppressions = {}
    /\ enqueue_calls = <<>>
    /\ enqueue_result = NoResult
    /\ disp = [w \in Workers |-> IdleDisp]
    /\ gate_out = NoGate
    /\ response = NoResponse
    /\ auto_reply_enabled \in BOOLEAN
    /\ ReplySenderIdle

ReplyNext ==
    \/ AdvanceClock
    \/ \E e \in ReplyFromInputs, t \in TextInputs, m \in InReplyToInputs :
          simulate_reply(e, t, m)
    \/ \E i \in DOMAIN replies, edited \in BOOLEAN : approve_reply(i, edited)
    \/ \E i \in DOMAIN replies : reject_reply(i)
    \/ auto_send_approved_replies
    \/ \E task \in reply_tasks : SendReplyStart(task)
    \/ \E outcome \in ReplySendOutcomes : SendReplyFinish(outcome)

ReplySpec == ReplyInit /\ [][ReplyNext]_vars

\* the beat schedule keeps running the sweep; the worker starts every queued
\* task of every Reply, however many other tasks are queued; the transport
\* does not fail forever for any Reply
ReplyFairness ==
    /\ WF_vars(auto_send_approved_replies)
    /\ \A i \in 1..MaxReplies :
          SF_vars(\E task \in reply_tasks : task.reply = i /\ SendReplyStart(task))
    /\ \A i \in 1..MaxReplies :
          SF_vars(reply_run = i /\ SendReplyFinish("sent"))

FairReplySpec == ReplyInit /\ [][ReplyNext]_vars /\ ReplyFairness

(***************************************************************************)
(* Two worker processes take send_single_reply tasks from the queue at the *)
(* same time.                                                              *)
(***************************************************************************)
ReplyOverlapNext ==
    \/ AdvanceClock
    \/ \E e \in ReplyFromInputs, t \in TextInputs, m \in InReplyToInputs :
          simulate_reply(e, t, m)
    \/ \E i \in DOMAIN replies, edited \in BOOLEAN : approve_reply(i, edited)
    \/ auto_send_approved_replies
    \/ \E task \in reply_tasks : SendReplyStart(task)
    \/ \E outcome \in ReplySendOutcomes : SendReplyFinish(outcome)
    \/ \E task \in reply_tasks : SendReplyStart2(task)
    \/ \E outcome \in ReplySendOutcomes : SendReplyFinish2(outcome)

ReplyOverlapSpec == ReplyInit /\ [][ReplyOverlapNext]_vars

(***************************************************************************)
(* Auto-reply mode on its own: replies arrive and are answered without any *)
(* approve or reject call.                                                 *)
(***************************************************************************)
AutoReplyInit ==
    /\ ReplyInit
    /\ auto_reply_enabled

AutoReplyNext ==
    \/ AdvanceClock
    \/ \E e \in ReplyFromInputs, t \in TextInputs, m \in InReplyToInputs :
          simulate_reply(e, t, m)
    \/ auto_send_approved_replies
    \/ \E task \in reply_tasks : SendReplyStart(task)
    \/ \E outcome \in ReplySendOutcomes : SendReplyFinish(outcome)

AutoReplySpec == AutoReplyInit /\ [][AutoReplyNext]_vars

(***************************************************************************)
(* Classification on its own: replies arrive for one lead that was sent    *)
(* step 1, the classifier returns any label, in either auto-reply mode;    *)
(* the sweep and the send tasks run, nobody approves or rejects.           *)
(***************************************************************************)
ClassifyNext ==
    \/ AdvanceClock
    \/ \E e \in ReplyFromInputs, t \in TextInputs, m \in InReplyToInputs :
          SimulateReplyWith(e, t, m, ReplyCategory)
    \/ auto_send_approved_replies
    \/ \E task \in reply_tasks : SendReplyStart(task)
    \/ \E outcome \in ReplySendOutcomes : SendReplyFinish(outcome)

ClassifySpec == ReplyInit /\ [][ClassifyNext]_vars

(***************************************************************************)
(* Sender lookup on its own: a store with a lead whose address is stored   *)
(* as typed, with capital letters, and a lead whose address is stored     *)
(* trimmed and in lower case, each sent step 1; replies arrive from        *)
(* variants of both addresses and from an address of no lead.              *)
(***************************************************************************)
SenderLeads ==
    << [email |-> <<"A","@","X">>, bundle_id |-> "b1"],
       [email |-> <<"b","@","x">>, bundle_id |-> "b1"] >>

SenderInit ==
    /\ now = ClockTimeOfDay
    /\ leads = SenderLeads
    /\ campaigns = << [status |-> "active", lead_bundle_ids |-> {"b1"}] >>
    /\ emails = << MarkSent(NewEmailRecord(1, 1, 1, now), now, 1),
                   MarkSent(NewEmailRecord(1, 2, 1, now), now, 2) >>
    /\ smtp_calls = << 1, 1 >>
    /\ replies = <<>>
    /\ suppressions = {}
    /\ enqueue_calls = <<>>
    /\ enqueue_result = NoResult
    /\ disp = [w \in Workers |-> IdleDisp]
    /\ gate_out = NoGate
    /\ response = NoResponse
    /\ auto_reply_enabled \in BOOLEAN
    /\ ReplySenderIdle

SenderNext ==
    \/ AdvanceClock
    \/ \E e \in SenderInputs, t \in TextInputs, m \in InReplyToInputs :
          SimulateReplyWith(e, t, m, CategoryInputs)
    \/ \E e \in UnsubscribeInputs : Unsubscribe(e)

SenderSpec == SenderInit /\ [][SenderNext]_vars

(***************************************************************************)
(* Overlapping dispatcher invocations: the beat cycle and the cycle that   *)
(* launch_campaign starts with process_pending_emails.delay() run at the   *)
(* same time, each with its own session, over a store in which three       *)
(* campaigns were launched and every step 1 is due; the step 1 of the      *)
(* third campaign is still pending or was sent earlier today.              *)
(***************************************************************************)
\* the invocations that run at once: 1 the beat cycle, 2 the post-launch one
Overlapping == {1, 2}

\* the email rows at the start: four pending step-1 rows, and a fifth that is
\* pending or already sent today
OverlapStores ==
    { << NewEmailRecord(1, 1, 1, ClockTimeOfDay), NewEmailRecord(1, 2, 1, ClockTimeOfDay),
         NewEmailRecord(2, 1, 1, ClockTimeOfDay), NewEmailRecord(2, 2, 1, ClockTimeOfDay),
         fifth >> :
      fifth \in { NewEmailRecord(3, 1, 1, ClockTimeOfDay),
                  MarkSent(NewEmailRecord(3, 1, 1, ClockTimeOfDay), ClockTimeOfDay, 5) } }

OverlapInit ==
    /\ now = ClockTimeOfDay
    /\ leads = << [email |-> <<"a","@","x">>, bundle_id |-> "b1"],
                  [email |-> <<"b","@","x">>, bundle_id |-> "b1"] >>
    /\ campaigns = [c \in 1..3 |-> [status |-> "active", lead_bundle_ids |-> {"b1"}]]
    /\ emails \in OverlapStores
    /\ smtp_calls = [r \in DOMAIN emails |-> IF emails[r].status = "sent" THEN 1 ELSE 0]
    /\ replies = <<>>
    /\ suppressions = {}
    /\ enqueue_calls = <<>>
    /\ enqueue_result = NoResult
    /\ disp = [w \in Overlapping |-> IdleDisp]
    /\ gate_out = NoGate
    /\ response = NoResponse
    /\ auto_reply_enabled = FALSE
    /\ ReplySenderIdle

OverlapNext ==
    \/ \E w \in Overlapping : DispatchStart(w)
    \/ \E w \in Overlapping : \E r \in disp[w].batch : DispatchGate(w, r)
    \/ \E w \in Overlapping, o \in SendOutcomes : DispatchSend(w, o)

OverlapSpec == OverlapInit /\ [][OverlapNext]_vars

\* no invocation has committed a result yet
NothingCommitted == emails \in OverlapStores

\* an invocation that computes `remaining` and fetches its rows before any
\* invocation has committed a send
RaceStart(w) == NothingCommitted /\ DispatchStart(w)

RaceNext ==
    \/ \E w \in Overlapping : RaceStart(w)
    \/ \E w \in Overlapping : \E r \in disp[w].batch : DispatchGate(w, r)
    \/ \E w \in Overlapping, o \in SendOutcomes : DispatchSend(w, o)

RaceSpec == OverlapInit /\ [][RaceNext]_vars

(***************************************************************************)
(* Overlapping dispatcher invocations and the reply processor: one lead,   *)
(* one due step 1, two invocations, and replies of the lead.               *)
(***************************************************************************)
DispatchReplyInit ==
    /\ now = ClockTimeOfDay
    /\ leads = << [email |-> <<"a","@","x">>, bundle_id |-> "b1"] >>
    /\ campaigns = << [status |-> "active", lead_bundle_ids |-> {"b1"}] >>
    /\ emails = << NewEmailRecord(1, 1, 1, now) >>
    /\ smtp_calls = << 0 >>
    /\ replies = <<>>
    /\ suppressions = {}
    /\ enqueue_calls = <<>>
    /\ enqueue_result = NoResult
    /\ disp = [w \in Overlapping |-> IdleDisp]
    /\ gate_out = NoGate
    /\ response = NoResponse
    /\ auto_reply_enabled \in BOOLEAN
    /\ ReplySenderIdle

DispatchReplyNext ==
    \/ \E w \in Overlapping : DispatchStart(w)
    \/ \E w \in Overlapping : \E r \in disp[w].batch : DispatchGate(w, r)
    \/ \E w \in Overlapping, o \in SendOutcomes : DispatchSend(w, o)
    \/ \E e \in ReplyFromInputs, t \in TextInputs, m \in InReplyToInputs :
          simulate_reply(e, t, m)

DispatchReplySpec == DispatchReplyInit /\ [][DispatchReplyNext]_vars

(***************************************************************************)
(* The beat schedule: process_pending_emails is started every 600 s and    *)
(* runs to its end. One row was sent earlier today and two step-1 rows are *)
(* due, so that today's quota covers one of them; the unsubscribe link and *)
(* replies of the leads arrive in between.                                 *)
(***************************************************************************)
BeatInit ==
    /\ now = ClockTimeOfDay
    /\ leads = << [email |-> <<"a","@","x">>, bundle_id |-> "b1"],
                  [email |-> <<"b","@","x">>, bundle_id |-> "b1"] >>
    /\ campaigns = [c \in 1..2 |-> [status |-> "active", lead_bundle_ids |-> {"b1"}]]
    /\ emails = << MarkSent(NewEmailRecord(1, 1, 1, now), now, 1),
                   NewEmailRecord(1, 2, 1, now),
                   NewEmailRecord(2, 1, 1, now) >>
    /\ smtp_calls = << 1, 0, 0 >>
    /\ replies = <<>>
    /\ suppressions = {}
    /\ enqueue_calls = <<>>
    /\ enqueue_result = NoResult
    /\ disp = [w \in Workers |-> IdleDisp]
    /\ gate_out = NoGate
    /\ response = NoResponse
    /\ auto_reply_enabled = FALSE
    /\ ReplySenderIdle

BeatNext ==
    \/ AdvanceClock
    \/ \E w \in Workers : DispatchStart(w)
    \/ \E w \in Workers : \E r \in disp[w].batch : DispatchGate(w, r)
    \/ \E w \in Workers, o \in SendOutcomes : DispatchSend(w, o)
    \/ \E e \in UnsubscribeInputs : Unsubscribe(e)
    \/ \E e \in ReplyFromInputs, t \in TextInputs, m \in InReplyToInputs :
          simulate_reply(e, t, m)

\* time passes; the beat schedule starts an invocation again and again, and
\* an invocation that has started runs its loop to the end
BeatFairness ==
    /\ WF_vars(AdvanceClock)
    /\ \A w \in Workers : WF_vars(DispatchStart(w))
    /\ \A w \in Workers : WF_vars(\E r \in disp[w].batch : DispatchGate(w, r))
    /\ \A w \in Workers : WF_vars(\E o \in SendOutcomes : DispatchSend(w, o))

BeatSpec == BeatInit /\ [][BeatNext]_vars /\ BeatFairness

(***************************************************************************)
(* Properties.                                                             *)
(***************************************************************************)
\* the lead of row r is on the suppression list (by its normalized address)
LeadSuppressed(r) ==
    NormalizeOf[leads[emails[r].lead_id].email] \in SuppressedAddresses

\* rows of the same (lead, campaign) as r
Siblings(r) ==
    {q \in DOMAIN emails :
        /\ emails[q].lead_id = emails[r].lead_id
        /\ emails[q].campaign_id = emails[r].campaign_id}

\* row r becomes SENT in this step
BecomesSent(r) == emails[r].status # "sent" /\ emails'[r].status = "sent"

\* C1: every call of enqueue_campaign_sequence(campaign, lead_ids) appends
\* exactly one pending row per (lead, step), step 1..5, for each lead that has
\* an address and is not suppressed at that time, no row for any other lead,
\* and returns queued = 5 x eligible leads and skipped = the other leads.
C1_EnqueueExact ==
    [][ Len(enqueue_calls') < Len(enqueue_calls) =>
          \E i \in DOMAIN enqueue_calls :
            LET call == enqueue_calls[i]
                ids == SeqRange(call.lead_ids)
                eligible == {l \in ids :
                                /\ l \in DOMAIN leads
                                /\ leads[l].email # <<>>
                                /\ NormalizeOf[leads[l].email] \notin SuppressedAddresses}
                new == (Len(emails) + 1)..Len(emails')
            IN  /\ enqueue_calls' = RemoveAt(enqueue_calls, i)
                /\ SubSeq(emails', 1, Len(emails)) = emails
                /\ \A l \in eligible, st \in 1..5 :
                      Cardinality({r \in new :
                          /\ emails'[r].lead_id = l
                          /\ emails'[r].sequence_step = st}) = 1
                /\ \A r \in new :
                      /\ emails'[r].lead_id \in eligible
                      /\ emails'[r].sequence_step \in 1..5
                      /\ emails'[r].campaign_id = call.campaign_id
                      /\ emails'[r].status = "pending"
                /\ enqueue_result'.queued = 5 * Cardinality(eligible)
                /\ enqueue_result'.skipped = Len(call.lead_ids) - Cardinality(eligible)
      ]_vars

\* C1 witness: a call returned after skipping a lead without address, a
\* suppressed lead and an unknown id, and queueing the five rows of one lead
\* next to rows that existed before
C1_Witness ==
    /\ enqueue_calls = <<>>
    /\ enqueue_result.skipped = 3
    /\ enqueue_result.queued = 5
    /\ enqueue_result.first_row > 1
    /\ Len(emails) = enqueue_result.first_row + 4

\* C2: after any sequence of create/launch/pause/resume calls at most one
\* row exists per (lead, campaign, step).
C2_OneRowPerStep ==
    \A r, q \in DOMAIN emails :
        ( /\ emails[r].lead_id = emails[q].lead_id
          /\ emails[r].campaign_id = emails[q].campaign_id
          /\ emails[r].sequence_step = emails[q].sequence_step ) => r = q

\* C3: no row becomes SENT, and no message is transmitted for it, at a moment
\* when its lead's normalized address is on the suppression list.
C3_NoSendWhileSuppressed ==
    [][ \A r \in DOMAIN emails :
          (BecomesSent(r) \/ smtp_calls'[r] > smtp_calls[r]) => ~LeadSuppressed(r)
      ]_vars

\* C4: once a row of a (lead, campaign) is REPLIED, no later-step row of that
\* pair becomes SENT.
C4_NoSendAfterReplied ==
    [][ \A r \in DOMAIN emails :
          BecomesSent(r) =>
            ~\E q \in Siblings(r) :
                /\ emails[q].status = "replied"
                /\ emails[q].sequence_step < emails[r].sequence_step
      ]_vars

\* rows counted for the UTC day d: SENT or REPLIED with sent_at within d
SentOnDay(d) ==
    {r \in DOMAIN emails :
        /\ emails[r].status \in {"sent", "replied"}
        /\ emails[r].sent_at # None
        /\ DayOf(emails[r].sent_at) = d}

\* C5: with dispatcher invocations run one after another, the number of rows
\* SENT or REPLIED with sent_at within one UTC day never exceeds daily_send_limit.
C5_DailyCap ==
    \A d \in 0..MaxDay : Cardinality(SentOnDay(d)) <= daily_send_limit

\* C5 witness: the day's count is at the limit, a due row is still pending,
\* and no invocation is in progress
C5_Witness ==
    /\ Cardinality(SentOnDay(DayOf(now))) = daily_send_limit
    /\ DuePending(emails, now) # {}
    /\ \A w \in Workers : disp[w].phase = "idle"

\* C6 as stated: a row's status is mutated at most once; once it has left
\* PENDING it never changes again.
C6_MutatedOnce ==
    [][ \A r \in DOMAIN emails :
          emails[r].status # "pending" => emails'[r].status = emails[r].status
      ]_vars

\* C6 amended: with dispatcher invocations that do not overlap, a row's status
\* changes only PENDING -> SENT, PENDING -> FAILED (dispatcher) and
\* SENT -> REPLIED (reply processor); it never returns to PENDING, and FAILED
\* and REPLIED are final.
C6_StatusTransitions ==
    [][ \A r \in DOMAIN emails :
          \/ emails'[r].status = emails[r].status
          \/ emails[r].status = "pending" /\ emails'[r].status \in {"sent", "failed"}
          \/ emails[r].status = "sent" /\ emails'[r].status = "replied"
      ]_vars

\* C6 witness: a row that was sent and then marked replied
C6_Witness ==
    \E r \in DOMAIN emails :
        /\ emails[r].status = "replied"
        /\ emails[r].sent_at # None
        /\ smtp_calls[r] = 1

\* C7: should_send_email returns (False, "suppressed") for every row whose
\* lead's address is on the suppression list, whatever the step and whatever
\* the statuses of the other rows of that (lead, campaign).
C7_GateSuppressed ==
    (gate_out.record # 0 /\ LeadSuppressed(gate_out.record)) =>
        (~gate_out.ok /\ gate_out.reason = "suppressed")

\* C7 witness: the gate refused, as suppressed, a row whose lead's address is
\* stored un-normalized and which also has a replied sibling
C7_Witness ==
    /\ gate_out.record # 0
    /\ gate_out.reason = "suppressed"
    /\ leads[emails[gate_out.record].lead_id].email
          # NormalizeOf[leads[emails[gate_out.record].lead_id].email]
    /\ \E q \in Siblings(gate_out.record) : emails[q].status = "replied"

\* C8: for a row whose lead is not suppressed, should_send_email returns
\* (False, "lead_already_replied") whenever some row of the same (lead,
\* campaign) is REPLIED, also a later step; a REPLIED row of the same lead in
\* another campaign does not trigger it.
C8_GateReplied ==
    (gate_out.record # 0 /\ ~LeadSuppressed(gate_out.record)) =>
        ( (~gate_out.ok /\ gate_out.reason = "lead_already_replied")
          <=> \E q \in Siblings(gate_out.record) : emails[q].status = "replied" )

\* C8 witness: the gate refused a row because a later step of the pair is replied
C8_Witness ==
    /\ gate_out.record # 0
    /\ gate_out.reason = "lead_already_replied"
    /\ \A q \in Siblings(gate_out.record) :
          emails[q].status = "replied"
            => emails[q].sequence_step > emails[gate_out.record].sequence_step
    /\ \E q \in DOMAIN emails :
          /\ emails[q].campaign_id # emails[gate_out.record].campaign_id
          /\ emails[q].status = "replied"

\* the rows of step N - 1 of the (lead, campaign) of row r
StepBefore(r) ==
    {q \in Siblings(r) : emails[q].sequence_step = emails[r].sequence_step - 1}

\* C9: for a row of step N > 1 whose lead is not suppressed and whose pair has
\* no REPLIED row, should_send_email returns (False, "previous_step_bounced")
\* exactly when the step N-1 row of the pair is BOUNCED, and (True, None) when
\* that row is SENT or PENDING.
C9_GateBounced ==
    ( /\ gate_out.record # 0
      /\ emails[gate_out.record].sequence_step > 1
      /\ ~LeadSuppressed(gate_out.record)
      /\ ~\E q \in Siblings(gate_out.record) : emails[q].status = "replied" ) =>
        /\ (~gate_out.ok /\ gate_out.reason = "previous_step_bounced")
              <=> \E q \in StepBefore(gate_out.record) : emails[q].status = "bounced"
        /\ (\E q \in StepBefore(gate_out.record) : emails[q].status \in {"sent", "pending"})
              => (gate_out.ok /\ gate_out.reason = "none")

\* C9 witness: the gate refused step 3 because step 2 bounced, step 1 being sent
C9_Witness ==
    /\ gate_out.record # 0
    /\ gate_out.reason = "previous_step_bounced"
    /\ emails[gate_out.record].sequence_step = 3
    /\ \E q \in Siblings(gate_out.record) :
          emails[q].sequence_step = 1 /\ emails[q].status = "sent"

\* the texts that contain one of the unsubscribe keywords, in any letter case
KeywordTexts == {t \in TextInputs : HasUnsubscribeKeyword(t)}

\* C10: process_reply on a text with an unsubscribe keyword, from a known lead
\* not yet suppressed, adds exactly one suppression row, for the sender, adds
\* no Reply row and changes no email row.
C10_UnsubscribeReply ==
    [][ \A e \in ReplyFromInputs, t \in KeywordTexts, m \in InReplyToInputs :
          ( /\ simulate_reply(e, t, m)
            /\ \E l \in DOMAIN leads : leads[l].email = LowerStripOf[e]
            /\ NormalizeOf[e] \notin SuppressedAddresses ) =>
              /\ \E row \in suppressions' :
                    /\ row.email_address = NormalizeOf[e]
                    /\ suppressions' = suppressions \cup {row}
                    /\ row \notin suppressions
              /\ replies' = replies
              /\ emails' = emails
      ]_vars

\* C10 witness: a suppression added by a reply, rows existing, no Reply row
C10_Witness ==
    /\ \E row \in suppressions : row.reason = "unsubscribe_reply"
    /\ emails # <<>>
    /\ replies = <<>>

\* C11: process_reply on a text without unsubscribe keyword, from a known
\* lead, with an in_reply_to equal to the message_id of a stored row, persists
\* a Reply that references that row, and that row's status becomes replied.
C11_ThreadsByMessageId ==
    [][ \A e \in ReplyFromInputs, t \in TextInputs \ KeywordTexts,
           m \in InReplyToInputs \ {None} :
          ( /\ simulate_reply(e, t, m)
            /\ \E l \in DOMAIN leads : leads[l].email = LowerStripOf[e] ) =>
              \E r \in ByMessageId(m) :
                 /\ Len(replies') = Len(replies) + 1
                 /\ replies'[Len(replies')].email_id = r
                 /\ emails'[r].status = "replied"
      ]_vars

\* the rows of the suppression list that hold the address a
RowsOf(supp, a) == {row \in supp : row.email_address = a}

TargetLeads(c) == {l \in DOMAIN leads : leads[l].bundle_id \in campaigns[c].lead_bundle_ids}

EligibleLeads(c) ==
    {l \in TargetLeads(c) :
        leads[l].email # <<>> /\ NormalizeOf[leads[l].email] \notin SuppressedAddresses}

\* the conditions under which a launch must be refused
MustReject(c) ==
    \/ c \notin DOMAIN campaigns
    \/ campaigns[c].status = "active"
    \/ campaigns[c].lead_bundle_ids = {}
    \/ EligibleLeads(c) = {}

\* C13: a launch request for a campaign that does not exist, is active, has
\* no bundles or has no eligible lead is never accepted; it is answered with
\* a 4xx error and changes nothing: campaign status, email rows and pending
\* generator calls stay as they were and no dispatch is triggered.
C13_LaunchRejected ==
    [][ \A c \in LaunchCampaignIds :
          /\ MustReject(c) => ~launch_campaign(c)
          /\ launch_rejected(c) =>
                /\ MustReject(c)
                /\ response'.status \in {400, 404}
                /\ response'.status = 404 <=> c \notin DOMAIN campaigns
                /\ ~response'.dispatch_triggered
                /\ campaigns' = campaigns
                /\ emails' = emails
                /\ enqueue_calls' = enqueue_calls
                /\ disp' = disp
      ]_vars

\* C13 witness: a launch of a paused campaign whose target leads are all
\* suppressed or without address was refused, and nothing was queued
C13_Witness ==
    /\ response.op = "launch"
    /\ response.status = 400
    /\ response.detail = "No eligible leads found"
    /\ campaigns[1].status = "paused"
    /\ campaigns[1].lead_bundle_ids # {}
    /\ emails = <<>>
    /\ enqueue_calls = <<>>

\* the campaign targets exactly one lead, and that lead is suppressed
OnlyLeadSuppressed(c) ==
    /\ c \in DOMAIN campaigns
    /\ campaigns[c].status # "active"
    /\ Cardinality(TargetLeads(c)) = 1
    /\ \A l \in TargetLeads(c) : NormalizeOf[leads[l].email] \in SuppressedAddresses

C15_StepOneDueAtLaunch ==
    \A r \in DOMAIN emails :
        emails[r].sequence_step = 1 =>
            /\ emails[r].scheduled_at = now
            /\ r \in DuePending(emails, now)

\* the windows of delay days of steps 2..5 as the specification states them
StepWindow == [k \in 2..5 |-> CASE k = 2 -> 3..5
                                 [] k = 3 -> 7..9
                                 [] k = 4 -> 12..15
                                 [] k = 5 -> 18..21]

\* minutes since midnight
TimeOfDay(t) == t % MinutesPerDay

\* scheduled_at is strictly increasing in the step for the rows of a lead
IncreasingInStep ==
    \A q, r \in DOMAIN emails :
        ( /\ emails[q].lead_id = emails[r].lead_id
          /\ emails[q].campaign_id = emails[r].campaign_id
          /\ emails[q].sequence_step < emails[r].sequence_step ) =>
            emails[q].scheduled_at < emails[r].scheduled_at

AwaitsSend(i) ==
    /\ i \in DOMAIN replies
    /\ replies[i].approved
    /\ replies[i].has_draft
    /\ ~replies[i].sent

\* the Reply i is marked sent, by the send task or by a reject call
MarkedSent(i) ==
    /\ i \in DOMAIN replies
    /\ replies[i].sent
    /\ (replies[i].responded_at # None \/ i \in rejected)

\* C17 as stated: every Reply that is approved, has a draft and is not yet
\* sent is eventually marked sent with responded_at set, when the sweep and
\* the send tasks keep running and the transport eventually succeeds.
C17_ApprovedEventuallySent ==
    \A i \in 1..MaxReplies :
        AwaitsSend(i) ~>
          (i \in DOMAIN replies /\ replies[i].sent /\ replies[i].responded_at # None)

\* C17 amended: every Reply that is approved, has a draft and is not yet sent
\* is eventually marked sent, with responded_at set by the send task unless a
\* reject call marked it first; also after a send attempt that failed.
C17_ApprovedEventuallyHandled ==
    /\ \A i \in 1..MaxReplies :
          AwaitsSend(i) ~> MarkedSent(i)
    /\ \A i \in 1..MaxReplies :
          (AwaitsSend(i) /\ response = TaskReturn(i, "failed")) ~> MarkedSent(i)

\* C17 witness: an approved Reply was sent by the send task, never rejected
C17_Witness ==
    /\ replies # <<>>
    /\ replies[1].approved /\ replies[1].sent
    /\ replies[1].responded_at # None
    /\ 1 \notin rejected
    /\ response = TaskReturn(1, "sent")

\* C18: send_single_reply makes no transport send and changes nothing when
\* the Reply is already marked sent or has no draft; a transport send that
\* succeeds sets sent and responded_at = now and nothing else; a transport
\* send that fails returns the error and leaves the Reply rows unchanged.
C18_SendSingleReply ==
    [][ /\ \A task \in reply_tasks :
            ( /\ SendReplyStart(task)
              /\ task.reply \in DOMAIN replies
              /\ (replies[task.reply].sent \/ ~replies[task.reply].has_draft) ) =>
                /\ replies' = replies
                /\ reply_sends' = reply_sends
                /\ reply_run' = 0
                /\ response'.result \in {"already_sent", "no_draft"}
        /\ SendReplyFinish("sent") =>
              /\ Len(reply_sends') = Len(reply_sends) + 1
              /\ reply_sends'[Len(reply_sends')].reply = reply_run
              /\ replies' = [replies EXCEPT ![reply_run].sent = TRUE,
                                            ![reply_run].responded_at = now]
              /\ replies[reply_run].has_draft
        /\ SendReplyFinish("failed") =>
              /\ replies' = replies
              /\ reply_sends' = reply_sends
              /\ response' = TaskReturn(reply_run, "failed")
      ]_vars

\* C18 witness: a send task found its Reply already marked sent and returned
\* without a second transmission
C18_Witness ==
    /\ response = TaskReturn(1, "already_sent")
    /\ Len(reply_sends) = 1
    /\ 1 \notin rejected

\* C19: a Reply that has been rejected is never transmitted: no transport
\* send for it takes place after reject_reply, and it is not in the approval
\* queue.
C19_RejectedNeverSent ==
    [][ /\ Len(reply_sends') > Len(reply_sends) =>
              reply_sends'[Len(reply_sends')].reply \notin rejected
        /\ \A i \in rejected' : i \notin get_approval_queue'
      ]_vars

\* C20: in auto-reply mode, with no approve call, a response is transmitted
\* no earlier than auto_reply_min_delay after its reply was processed.
C20_NotBeforeMinDelay ==
    \A k \in DOMAIN reply_sends :
        reply_sends[k].at >=
            replies[reply_sends[k].reply].received_at
              + auto_reply_min_delay \div SecondsPerMinute

\* C21: no row of a campaign becomes SENT, and no message is transmitted for
\* it, in a state where that campaign is paused.
C21_NoSendWhilePaused ==
    [][ \A r \in DOMAIN emails :
          (BecomesSent(r) \/ smtp_calls'[r] > smtp_calls[r]) =>
              campaigns[emails[r].campaign_id].status # "paused"
      ]_vars

\* the last Reply row
LastReply(rs) == rs[Len(rs)]

\* C22: a process_reply run that completes and persists a Reply gives it a
\* draft exactly when the label is interested, question or objection; the
\* Reply is approved exactly when it has a draft and auto-reply is enabled,
\* and then one send is scheduled for it, no earlier than auto_reply_min_delay
\* and no later than auto_reply_max_delay from now; a Reply with any other
\* label has no draft, is not approved, is not sent and gets no send task, now
\* or later.
C22_DraftAndApproval ==
    /\ [][ Len(replies') = Len(replies) + 1 =>
             LET new == LastReply(replies')
                 act == new.category \in {"interested", "question", "objection"}
                 added == reply_tasks' \ reply_tasks
             IN  /\ new.has_draft <=> act
                 /\ new.approved <=> (act /\ auto_reply_enabled)
                 /\ ~new.sent
                 /\ new.responded_at = None
                 /\ IF act /\ auto_reply_enabled
                    THEN /\ Cardinality(added) = 1
                         /\ \A task \in added :
                              /\ task.reply = Len(replies')
                              /\ (task.eta - now) * SecondsPerMinute
                                   \in auto_reply_min_delay..auto_reply_max_delay
                    ELSE added = {}
         ]_vars
    /\ [](\A i \in DOMAIN replies :
            replies[i].category \notin {"interested", "question", "objection"} =>
              /\ ~replies[i].has_draft /\ ~replies[i].approved /\ ~replies[i].sent
              /\ \A task \in reply_tasks : task.reply # i
              /\ reply_run # i)

\* C22 witness: in auto-reply mode a question was answered with a draft,
\* approved by the processor, and its send waits for the countdown
C22_Witness ==
    /\ auto_reply_enabled
    /\ replies # <<>>
    /\ replies[1].category = "question"
    /\ replies[1].has_draft /\ replies[1].approved /\ ~replies[1].sent
    /\ \E task \in reply_tasks : task.reply = 1 /\ task.eta > now

\* the leads whose address equals the address a, letter case and surrounding
\* blanks disregarded
LeadsOfAddress(a) ==
    {l \in DOMAIN leads : NormalizeOf[leads[l].email] = NormalizeOf[a]}

\* C23: process_reply for a sender address that belongs to no lead changes
\* nothing: no Reply row, no Suppression row, no change of an email row and no
\* send task, whether or not the text carries an unsubscribe keyword.
C23_UnknownSender ==
    [][ \A e \in SenderInputs, t \in TextInputs, m \in InReplyToInputs :
          ( /\ SimulateReplyWith(e, t, m, CategoryInputs)
            /\ LeadsOfAddress(e) = {} ) =>
              /\ replies' = replies
              /\ suppressions' = suppressions
              /\ emails' = emails
              /\ reply_tasks' = reply_tasks
              /\ response' = ProcessReplyNoLead(LowerStripOf[e])
      ]_vars

\* C23 witness: a reply from an address of no lead was discarded, and the
\* store is as it was
C23_Witness ==
    /\ response = ProcessReplyNoLead(<<"c","@","x">>)
    /\ replies = <<>>
    /\ suppressions = {}
    /\ \A r \in DOMAIN emails : emails[r].status = "sent"


\* C24: a reply whose from-address differs from a stored lead's address only
\* by letter case or surrounding blanks is processed for that lead, not
\* discarded as coming from an unknown sender.
C24_VariantFindsLead ==
    [][ \A e \in SenderInputs, t \in TextInputs, m \in InReplyToInputs :
          ( /\ SimulateReplyWith(e, t, m, CategoryInputs)
            /\ LeadsOfAddress(e) # {} ) =>
              response' # ProcessReplyNoLead(LowerStripOf[e])
      ]_vars


\* C25: the suppression list only grows: every step of every operation keeps
\* each row that is on the list, with its address and its reason.
C25_SuppressionsOnlyGrow ==
    [][ \A s \in suppressions : s \in suppressions' ]_vars

\* C25 witness: an address was suppressed, and afterwards the dispatcher
\* refused a row for it and a reply of the lead was processed
C25_Witness ==
    /\ suppressions # {}
    /\ \E r \in DOMAIN emails :
          emails[r].status = "failed" /\ emails[r].notes = "suppressed"
    /\ replies # <<>>


\* the notes the loop of process_pending_emails writes on a row it gives up on
FailureNotes ==
    {"no_lead_email", "suppressed", "lead_already_replied",
     "previous_step_bounced", "error"}

\* C26: in the loop of process_pending_emails every step finishes at most one
\* record; a record whose lead check, gate, content generation or transport
\* fails becomes FAILED with the reason as its note and no other row changes;
\* the loop goes on with the rest of the fetched list; and when the invocation
\* returns none of the rows it fetched is PENDING.
C26_FailureIsolation ==
    [][ \A w \in Workers :
          (disp[w].phase \in {"loop", "send"} /\ disp'[w] # disp[w]) =>
            LET done == disp[w].batch \ disp'[w].batch
            IN  /\ Cardinality(done) <= 1
                /\ disp'[w].batch \subseteq disp[w].batch
                /\ \A r \in done :
                      /\ emails'[r].status \in {"sent", "failed"}
                      /\ emails'[r].status = "failed" =>
                            /\ emails'[r].notes \in FailureNotes
                            /\ emails'[r].notes = "error" <=> disp[w].phase = "send"
                            /\ emails'[r].notes = "no_lead_email" <=>
                                  /\ disp[w].phase = "loop"
                                  /\ leads[emails[r].lead_id].email = <<>>
                            /\ smtp_calls'[r] = smtp_calls[r]
                /\ \A q \in DOMAIN emails \ done : emails'[q] = emails[q]
                /\ disp'[w].phase # "idle" => disp'[w].pending = disp[w].pending
                /\ disp'[w].phase = "idle" =>
                      \A r \in disp[w].pending : emails'[r].status # "pending"
      ]_vars

\* C26 witness: generation or transport failed for one fetched record, which
\* is FAILED, and the same invocation has gone on to the next record, which
\* passed the gate
C26_Witness ==
    \E w \in Workers :
        /\ disp[w].phase = "send"
        /\ \E q \in disp[w].pending \ disp[w].batch :
              emails[q].status = "failed" /\ emails[q].notes = "error"

\* C27: an invocation of process_pending_emails that finds today's count of
\* SENT and REPLIED rows at or above daily_send_limit returns at once: no row
\* is fetched, changed or transmitted, and nothing else in the store changes.
C27_LimitReachedNoEffect ==
    [][ \A w \in Workers :
          (DispatchStart(w) /\ TodaySent(emails, now) >= daily_send_limit) =>
              /\ response' = DailyLimitReached
              /\ disp' = disp
              /\ emails' = emails
              /\ smtp_calls' = smtp_calls
              /\ suppressions' = suppressions
              /\ replies' = replies
              /\ campaigns' = campaigns
              /\ leads' = leads
      ]_vars

\* C27 witness: an invocation returned on the daily limit while a pending row
\* was due, and that row is still pending
C27_Witness ==
    /\ response = DailyLimitReached
    /\ TodaySent(emails, now) >= daily_send_limit
    /\ DuePending(emails, now) # {}
    /\ \A w \in Workers : disp[w].phase = "idle"

\* C28: a FAILED row is never retried: an invocation fetches only rows that
\* are PENDING when it starts, only a row fetched by a running invocation is
\* transmitted or becomes SENT, and with invocations one after the other a
\* FAILED row stays FAILED and is never transmitted.
C28_NoRetry ==
    [][ /\ \A w \in Workers :
              DispatchStart(w) =>
                  \A r \in disp'[w].pending : emails[r].status = "pending"
        /\ \A r \in DOMAIN emails :
              (BecomesSent(r) \/ smtp_calls'[r] > smtp_calls[r]) =>
                  \E w \in Workers : r \in disp[w].pending
        /\ \A r \in DOMAIN emails :
              emails[r].status = "failed" =>
                  /\ emails'[r].status = "failed"
                  /\ smtp_calls'[r] = smtp_calls[r]
      ]_vars

\* C28 witness: a later invocation has fetched its rows while a row that
\* failed in an earlier one is due and FAILED, and did not fetch it
C28_Witness ==
    \E w \in Workers :
        /\ disp[w].phase = "loop"
        /\ disp[w].batch = disp[w].pending
        /\ \E r \in DOMAIN emails \ disp[w].pending :
              /\ emails[r].status = "failed"
              /\ emails[r].notes = "error"
              /\ emails[r].scheduled_at <= now + LookaheadMinutes


\* C29: the mail transport delivers at most one message per row, also when
\* two invocations of process_pending_emails overlap.
C29_AtMostOneTransmission ==
    \A r \in DOMAIN emails : smtp_calls[r] <= 1

\* C30: when two invocations both compute `remaining` before either commits,
\* today's count of SENT and REPLIED rows can pass daily_send_limit, and
\* whenever an invocation marks a row SENT the count is at most the limit plus
\* the number of rows that invocation fetched, and at most the limit plus the
\* number of rows the other running invocation fetched; neither number is
\* above the `remaining` the invocation computed.
C30_SoftLimit ==
    [][ /\ \A w \in Overlapping :
              RaceStart(w) =>
                  Cardinality(disp'[w].pending) <= Remaining(emails, now)
        /\ \A w \in Overlapping :
              (disp[w].phase = "send" /\ disp'[w] # disp[w]) =>
                  \A o \in Overlapping :
                      disp[o].phase # "idle" =>
                          TodaySent(emails', now') <=
                              daily_send_limit + Cardinality(disp[o].pending)
      ]_vars

\* C30 witness: both invocations ran, and today's count is the limit plus
\* the quota that was left when they started, with a due row still pending
C30_Witness ==
    /\ TodaySent(emails, now) = daily_send_limit + 1
    /\ emails[5].sent_at # None /\ smtp_calls[5] = 1
    /\ DuePending(emails, now) # {}
    /\ \A w \in Overlapping : disp[w].phase = "idle"


\* the first check, in the order no_lead_email, suppressed,
\* lead_already_replied, previous_step_bounced, that row r fails; "none" when
\* it passes all four
FirstFailing(r) ==
    IF leads[emails[r].lead_id].email = <<>> THEN "no_lead_email"
    ELSE IF LeadSuppressed(r) THEN "suppressed"
    ELSE IF \E q \in Siblings(r) : emails[q].status = "replied"
         THEN "lead_already_replied"
    ELSE IF \E q \in StepBefore(r) : emails[q].status = "bounced"
         THEN "previous_step_bounced"
    ELSE "none"

\* C31: the step of process_pending_emails that runs the lead check and the
\* send gate on a fetched row marks the row FAILED exactly when one of the four
\* checks fails, with the first failing check, in the order no_lead_email,
\* suppressed, lead_already_replied, previous_step_bounced, as its note; a row
\* that passes all four goes on to generation unchanged.
C31_FirstFailingReason ==
    [][ \A w \in Workers : \A r \in DOMAIN emails :
          DispatchGate(w, r) =>
              IF FirstFailing(r) = "none"
              THEN /\ emails' = emails
                   /\ disp'[w].phase = "send" /\ disp'[w].cur = r
              ELSE /\ emails'[r].status = "failed"
                   /\ emails'[r].notes = FirstFailing(r)
      ]_vars

\* C31 witness: the dispatcher recorded lead_already_replied on a step whose
\* pair has a replied row and whose previous step bounced
C31_Witness ==
    \E r \in DOMAIN emails :
        /\ emails[r].status = "failed"
        /\ emails[r].notes = "lead_already_replied"
        /\ \E q \in StepBefore(r) : emails[q].status = "bounced"


\* C32: a campaign leaves status draft only by a successful launch, which sets
\* it active and calls the sequence generator; pause and resume do not move a
\* draft campaign.
C32_DraftLeavesByLaunch ==
    [][ \A c \in DOMAIN campaigns :
          (campaigns[c].status = "draft" /\ campaigns'[c].status # "draft") =>
              /\ launch_campaign(c)
              /\ campaigns'[c].status = "active"
      ]_vars


\* C33: when the sequence generator fails during a launch, the campaign is
\* not left active without rows: after the failed request the campaign is
\* not active, or rows of it exist.
C33_LaunchAtomic ==
    [][ \A i \in DOMAIN enqueue_calls :
          enqueue_campaign_sequence_raises(i) =>
              LET c == enqueue_calls[i].campaign_id
              IN  \/ campaigns'[c].status # "active"
                  \/ \E r \in DOMAIN emails' : emails'[r].campaign_id = c
      ]_vars


\* C34: whenever a row becomes SENT or a message is transmitted for it, the
\* row was PENDING, and the time of the send is not earlier than its
\* scheduled_at minus the five minutes of lookahead.
C34_SentOnlyWhenDue ==
    [][ \A r \in DOMAIN emails :
          (BecomesSent(r) \/ smtp_calls'[r] > smtp_calls[r]) =>
              /\ emails[r].status = "pending"
              /\ emails'[r].sent_at >= emails[r].scheduled_at - LookaheadMinutes
              /\ emails'[r].scheduled_at = emails[r].scheduled_at
      ]_vars

\* C34 witness: a row was sent at the earliest moment the lookahead allows,
\* five minutes before its scheduled time, while a row scheduled later than
\* the window is still pending
C34_Witness ==
    /\ \E r \in DOMAIN emails :
          /\ emails[r].status = "sent"
          /\ emails[r].sent_at = emails[r].scheduled_at - LookaheadMinutes
    /\ \E q \in DOMAIN emails :
          /\ emails[q].status = "pending"
          /\ emails[q].sequence_step = 1
          /\ emails[q].scheduled_at > now + LookaheadMinutes
    /\ \A w \in Workers : disp[w].phase = "idle"


\* C35: process_reply on a text without unsubscribe keyword, from a known
\* lead, always persists a Reply row, and the row it resolved as the
\* originating email, if any, is REPLIED afterwards, whether or not the draft
\* generation that follows succeeds.
C35_ReplyKeptOnDraftFailure ==
    [][ \A e \in ReplyFromInputs, t \in TextInputs \ KeywordTexts,
           m \in InReplyToInputs :
          ( /\ simulate_reply(e, t, m)
            /\ \E l \in DOMAIN leads : leads[l].email = LowerStripOf[e] ) =>
              /\ Len(replies') = Len(replies) + 1
              /\ response' # ProcessReplyRaised
              /\ LastReply(replies').email_id # None =>
                    emails'[LastReply(replies').email_id].status = "replied"
      ]_vars


\* C36: the bounce check of the gate looks at step N - 1 only. For a row
\* whose lead has an address and is not suppressed and whose pair has no
\* REPLIED row: when its previous step is BOUNCED the dispatcher marks it
\* FAILED with previous_step_bounced; when its previous step is FAILED, also
\* FAILED with previous_step_bounced below a bounced step, the row passes the
\* gate and goes on to be sent.
C36_BounceGateNoCascade ==
    [][ \A w \in Workers : \A r \in DOMAIN emails :
          ( /\ DispatchGate(w, r)
            /\ leads[emails[r].lead_id].email # <<>>
            /\ ~LeadSuppressed(r)
            /\ ~\E q \in Siblings(r) : emails[q].status = "replied" ) =>
              /\ (\E q \in StepBefore(r) : emails[q].status = "bounced") =>
                    /\ emails'[r].status = "failed"
                    /\ emails'[r].notes = "previous_step_bounced"
              /\ (\E q \in StepBefore(r) : emails[q].status = "failed") =>
                    /\ emails' = emails
                    /\ disp'[w].phase = "send" /\ disp'[w].cur = r
      ]_vars

\* C36 witness: step 1 bounced, step 2 was marked FAILED with
\* previous_step_bounced by the dispatcher, and step 3 was sent by it
C36_Witness ==
    \E r1, r2, r3 \in DOMAIN emails :
        /\ r2 \in StepBefore(r3) /\ r1 \in StepBefore(r2)
        /\ emails[r1].status = "bounced"
        /\ emails[r2].status = "failed" /\ emails[r2].notes = "previous_step_bounced"
        /\ emails[r3].status = "sent" /\ emails[r3].sent_at = now
        /\ smtp_calls[r3] = 1 /\ emails[r3].message_id = r3


\* C37: send_reply_email transmits the draft of each Reply at most once,
\* however the send_single_reply tasks queued for it are interleaved.
C37_ReplyTransmittedOnce ==
    \A i \in DOMAIN replies :
        Cardinality({k \in DOMAIN reply_sends : reply_sends[k].reply = i}) <= 1


\* C38: every REPLIED row has sent_at and message_id set, and a row becomes
\* REPLIED only from SENT, never from PENDING or FAILED.
C38_RepliedOnlyFromSent ==
    [][ \A r \in DOMAIN emails :
          /\ emails'[r].status = "replied" =>
                emails'[r].sent_at # None /\ emails'[r].message_id # None
          /\ (emails[r].status # "replied" /\ emails'[r].status = "replied") =>
                emails[r].status = "sent"
      ]_vars


\* row r is PENDING and its scheduled_at has passed
DueNow(r) ==
    /\ r \in DOMAIN emails
    /\ emails[r].status = "pending"
    /\ emails[r].scheduled_at <= now

=============================================================================
